---- MODULE Spec2Model ----
(***************************************************************************)
(* gmail-blade: the rule-evaluation / action-dispatch pipeline             *)
(* (processMessage), the per-cycle inbox scan (runOnce) and the server     *)
(* loop with its backoff (runServer), together with the GitHub prefetch    *)
(* cache and the gated approval (executePrefetchGitHubPullRequest,         *)
(* processGitHubReview).                                                   *)
(*                                                                         *)
(* Text that the program matches with prefixes or regular expressions      *)
(* (action strings, prefetch names, message bodies, cache keys) is a       *)
(* sequence of one-character strings, so that the matching is computed.    *)
(* Text that is only compared for equality (addresses, logins, mailbox     *)
(* names taken out of an action) keeps the same representation.            *)
(* Durations are whole seconds.                                            *)
(***************************************************************************)
EXTENDS Integers, Sequences, FiniteSets, TLC

\* ------------------------------------------------------------------ bounds

\* Largest value the failure counter may take in the model (the Go int is
\* unbounded for every practical run length).
MaxBackoff == 5

\* Most messages INBOX holds when a run of the model starts.
MaxMessages == 2

\* Largest value of the failure counter in the runs that process messages.
MaxRunBackoff == 1

\* The step of the fetch window: sequence numbers idx..idx+PageStep, advancing
\* by PageStep. The program's step is 100; the model scales it to the size of
\* its inboxes.
PageStep == 2

\* ------------------------------------------------------------------ text

SetMin(S) == CHOOSE x \in S : \A y \in S : x <= y
SetMax(S) == CHOOSE x \in S : \A y \in S : x >= y

UpperLetters == <<"A","B","C","D","E","F","G","H","I","J","K","L","M",
                  "N","O","P","Q","R","S","T","U","V","W","X","Y","Z">>
LowerLetters == <<"a","b","c","d","e","f","g","h","i","j","k","l","m",
                  "n","o","p","q","r","s","t","u","v","w","x","y","z">>

\* Case folding of one character, as (?i) does for the ASCII letters.
Fold(c) ==
    IF \E k \in 1..26 : UpperLetters[k] = c
    THEN LowerLetters[CHOOSE k \in 1..26 : UpperLetters[k] = c]
    ELSE c

\* \s of Go's regexp: [\t\n\f\r ].
IsSpace(c) == c \in {" ", "\t", "\n", "\f", "\r"}
IsDigit(c) == c \in {"0","1","2","3","4","5","6","7","8","9"}
NotSlash(c) == c # "/"
NotQuote(c) == c # "\""

\* The literal lit occurs in s at position i.
LitAt(s, i, lit) ==
    /\ i >= 1
    /\ i + Len(lit) - 1 <= Len(s)
    /\ \A k \in 1..Len(lit) : s[i + k - 1] = lit[k]

\* The same, ignoring letter case.
FoldLitAt(s, i, lit) ==
    /\ i >= 1
    /\ i + Len(lit) - 1 <= Len(s)
    /\ \A k \in 1..Len(lit) : Fold(s[i + k - 1]) = Fold(lit[k])

\* strings.HasPrefix
HasPrefix(s, prefix) == LitAt(s, 1, prefix)

\* Last position of the longest run of characters satisfying P that starts at
\* i (i - 1 when the run is empty).
RunEnd(s, i, P(_)) ==
    SetMax({j \in (i - 1)..Len(s) : \A k \in i..j : P(s[k])})

\* words[1] \s+ words[2] \s+ ... matched at position i, ignoring case.
RECURSIVE FoldWordsAt(_, _, _)
FoldWordsAt(s, i, words) ==
    IF words = <<>> THEN TRUE
    ELSE /\ FoldLitAt(s, i, Head(words))
         /\ IF Len(words) = 1 THEN TRUE
            ELSE LET from == i + Len(Head(words))
                     to == RunEnd(s, from, IsSpace)
                 IN /\ to >= from
                    /\ FoldWordsAt(s, to + 1, Tail(words))

\* A regexp of the form  <kw> "([^"]*)"  applied with FindStringSubmatch:
\* <<>> when there is no match, else <<whole match, group 1>>.
FindQuotedArg(kw, s) ==
    LET open == kw \o <<" ", "\"">>
        starts == {i \in 1..Len(s) :
                      /\ LitAt(s, i, open)
                      /\ RunEnd(s, i + Len(open), NotQuote) < Len(s)}
    IN IF starts = {} THEN <<>>
       ELSE LET i == SetMin(starts)
                e == RunEnd(s, i + Len(open), NotQuote)
            IN <<SubSeq(s, i, e + 1), SubSeq(s, i + Len(open), e)>>

W_label == <<"l","a","b","e","l">>
W_move == <<"m","o","v","e">>
W_to == <<"t","o">>
W_delete == <<"d","e","l","e","t","e">>
W_github == <<"g","i","t","h","u","b">>
W_review == <<"r","e","v","i","e","w">>
W_pull == <<"p","u","l","l">>
W_request == <<"r","e","q","u","e","s","t">>
SP == <<" ">>

\* labelRegexp = `label "([^"]*)"`, FindStringSubmatch
labelRegexp(action) == FindQuotedArg(W_label, action)

\* moveToRegexp = `move to "([^"]*)"`, FindStringSubmatch
moveToRegexp(action) == FindQuotedArg(W_move \o SP \o W_to, action)

\* githubReviewRegexp = `(?i)github\s+review`, MatchString
githubReviewRegexp(s) ==
    \E i \in 1..Len(s) : FoldWordsAt(s, i, <<W_github, W_review>>)

\* githubPullRequestRegexp = `(?i)github\s+pull\s+request`, MatchString
githubPullRequestRegexp(s) ==
    \E i \in 1..Len(s) : FoldWordsAt(s, i, <<W_github, W_pull, W_request>>)

\* ------------------------------------------------------------------ GitHub

URLPrefix == <<"h","t","t","p","s",":","/","/","g","i","t","h","u","b",
               ".","c","o","m","/">>
PullPart == <<"/","p","u","l","l","/">>

\* githubPullRequestURLRegex = `https://github\.com/([^/]+)/([^/]+)/pull/(\d+)`
\* matched at position i of body: the three groups, or <<>>.
URLMatchAt(body, i) ==
    IF ~LitAt(body, i, URLPrefix) THEN <<>>
    ELSE LET o1 == i + Len(URLPrefix)
             o2 == RunEnd(body, o1, NotSlash)
             r1 == o2 + 2
             r2 == RunEnd(body, r1, NotSlash)
             d1 == r2 + 1 + Len(PullPart)
             d2 == RunEnd(body, d1, IsDigit)
         IN IF /\ o2 >= o1
               /\ o2 < Len(body)
               /\ r2 >= r1
               /\ LitAt(body, r2 + 1, PullPart)
               /\ d2 >= d1
            THEN <<SubSeq(body, o1, o2), SubSeq(body, r1, r2), SubSeq(body, d1, d2)>>
            ELSE <<>>

\* FindStringSubmatch: the groups of the leftmost match, or <<>>.
githubPullRequestURLRegex(body) ==
    LET starts == {i \in 1..Len(body) : URLMatchAt(body, i) # <<>>}
    IN IF starts = {} THEN <<>> ELSE URLMatchAt(body, SetMin(starts))

\* strconv.Atoi on a string of digits: the number, written without leading
\* zeros (a number is kept as its decimal digits, so no width is lost).
RECURSIVE StripZeros(_)
StripZeros(ds) ==
    IF Len(ds) > 1 /\ Head(ds) = "0" THEN StripZeros(Tail(ds)) ELSE ds

MaxInt64Digits == <<"9","2","2","3","3","7","2","0","3","6","8","5","4","7",
                    "7","5","8","0","7">>

DigitVal(c) == CHOOSE n \in 0..9 : <<"0","1","2","3","4","5","6","7","8","9">>[n + 1] = c

\* a <= b for two digit strings of the same length
RECURSIVE DigitsLE(_, _)
DigitsLE(a, b) ==
    IF a = <<>> THEN TRUE
    ELSE IF DigitVal(Head(a)) < DigitVal(Head(b)) THEN TRUE
    ELSE IF DigitVal(Head(a)) > DigitVal(Head(b)) THEN FALSE
    ELSE DigitsLE(Tail(a), Tail(b))

Atoi(ds) ==
    LET n == StripZeros(ds)
        fits == \/ Len(n) < Len(MaxInt64Digits)
                \/ Len(n) = Len(MaxInt64Digits) /\ DigitsLE(n, MaxInt64Digits)
    IN [ok |-> fits, n |-> IF fits THEN n ELSE <<"0">>]

\* parseGitHubNotification
parseGitHubNotification(body) ==
    LET matches == githubPullRequestURLRegex(body)
    IN IF matches = <<>>
       THEN [ok |-> FALSE, owner |-> <<>>, repo |-> <<>>, number |-> <<"0">>]
       ELSE LET a == Atoi(matches[3])
            IN IF ~a.ok
               THEN [ok |-> FALSE, owner |-> <<>>, repo |-> <<>>, number |-> <<"0">>]
               ELSE [ok |-> TRUE, owner |-> matches[1], repo |-> matches[2],
                     number |-> a.n]

\* strings.Split(s, ","): the parts between the commas, in order.
RECURSIVE SplitComma(_, _)
SplitComma(s, part) ==
    IF s = <<>> THEN <<part>>
    ELSE IF Head(s) = "," THEN <<part>> \o SplitComma(Tail(s), <<>>)
    ELSE SplitComma(Tail(s), Append(part, Head(s)))

\* strings.TrimSpace
RECURSIVE TrimLeft(_)
TrimLeft(s) == IF s # <<>> /\ IsSpace(Head(s)) THEN TrimLeft(Tail(s)) ELSE s
RECURSIVE TrimRight(_)
TrimRight(s) ==
    IF s # <<>> /\ IsSpace(s[Len(s)]) THEN TrimRight(SubSeq(s, 1, Len(s) - 1)) ELSE s
TrimSpace(s) == TrimRight(TrimLeft(s))

\* The largest number of 32 bits, in decimal digits.
MaxUint32Digits == <<"4", "2", "9", "4", "9", "6", "7", "2", "9", "5">>

\* The value of a string of decimal digits.
RECURSIVE DigitsToNat(_, _)
DigitsToNat(ds, acc) ==
    IF ds = <<>> THEN acc ELSE DigitsToNat(Tail(ds), acc * 10 + DigitVal(Head(ds)))

\* strconv.ParseUint(part, 10, 32): digits only, at least one, no sign, and a
\* value of at most 32 bits.
ParseUint(part) ==
    LET digits == part # <<>> /\ \A i \in 1..Len(part) : IsDigit(part[i])
        short == StripZeros(part)
        fits == /\ digits
                /\ \/ Len(short) < Len(MaxUint32Digits)
                   \/ Len(short) = Len(MaxUint32Digits) /\ DigitsLE(short, MaxUint32Digits)
    IN [ok |-> fits, n |-> IF fits THEN DigitsToNat(short, 0) ELSE 0]

\* parseUIDs: the set of the UIDs of a comma-separated list; blank parts are
\* skipped and the first part that is no number is an error.
parseUIDs(uidsStr) ==
    LET parts == SplitComma(uidsStr, <<>>)
        kept == {i \in 1..Len(parts) : TrimSpace(parts[i]) # <<>>}
        bad == {i \in kept : ~ParseUint(TrimSpace(parts[i])).ok}
    IN IF bad # {} THEN [ok |-> FALSE, uids |-> {}]
       ELSE [ok |-> TRUE, uids |-> {ParseUint(TrimSpace(parts[i])).n : i \in kept}]

\* fmt.Sprintf("%s/%s#%d", owner, repo, number)
CacheKey(owner, repo, number) == owner \o <<"/">> \o repo \o <<"#">> \o number

\* ------------------------------------------------------------------ texts of the model

Q == <<"\"">>
AddrA == [Mailbox |-> <<"a">>, Host |-> <<"x">>]
AddrB == [Mailbox |-> <<"b">>, Host |-> <<"x">>]
A_at_x == <<"a", "@", "x">>

BodyPlain == <<"h", "i">>
BodyPR7 == URLPrefix \o <<"o", "/", "r">> \o PullPart \o <<"7">>
BodyPR007 == <<"s", "e", "e", " ">> \o URLPrefix \o <<"o", "/", "r">>
             \o PullPart \o <<"0", "0", "7", ".">>
BodyEvil == URLPrefix \o <<"e", "/", "r">> \o PullPart \o <<"7">>
\* A pull request URL whose number does not fit an int.
BodyHuge == URLPrefix \o <<"o", "/", "r">> \o PullPart
            \o <<"9","9","9","9","9","9","9","9","9","9",
                 "9","9","9","9","9","9","9","9","9","9">>

RepoOR == <<"o", "/", "r">>

ActLabelA == W_label \o SP \o Q \o <<"A">> \o Q
ActLabelB == W_label \o SP \o Q \o <<"B">> \o Q
ActMoveM == W_move \o SP \o W_to \o SP \o Q \o <<"M">> \o Q
ActDelete == W_delete
ActReview == W_github \o SP \o W_review
ActReviewCaps == <<"G", "i", "t", "H", "u", "b">> \o SP \o SP \o <<"R", "e", "v", "i", "e", "w">>
ActUnknown == <<"a", "r", "c", "h", "i", "v", "e">>
ActDeleteCaps == <<"D", "e", "l", "e", "t", "e">>
ActLabelCaps == <<"L", "a", "b", "e", "l">> \o SP \o Q \o <<"A">> \o Q
ActMoveCaps == <<"M", "o", "v", "e">> \o SP \o W_to \o SP \o Q \o <<"M">> \o Q
ActMoveTrash == W_move \o SP \o W_to \o SP \o Q
                \o <<"[","G","m","a","i","l","]","/","T","r","a","s","h">> \o Q
\* A label whose name holds the review keyword, and a label and a move
\* without the quotes around their argument.
ActLabelReview == W_label \o SP \o Q \o W_github \o SP \o W_review \o Q
ActLabelBare == W_label \o SP \o <<"A">>
ActMoveBare == W_move \o SP \o W_to \o SP \o <<"M">>
PrefetchPR == W_github \o SP \o W_pull \o SP \o W_request
PrefetchPRCaps == <<"G", "i", "t", "H", "u", "b">> \o SP \o W_pull \o <<"\t">> \o W_request


\* Every action string, prefetch name and message body of the model.
ActionTexts == {ActLabelA, ActLabelB, ActMoveM, ActDelete, ActReview,
                ActReviewCaps, ActUnknown, ActDeleteCaps, ActLabelCaps,
                ActMoveCaps, ActMoveTrash, ActLabelReview, ActLabelBare, ActMoveBare}
PrefetchTexts == {PrefetchPR, PrefetchPRCaps}
BodyTexts == {BodyPlain, BodyPR7, BodyPR007, BodyEvil, BodyHuge}

\* The matches above for every text of the model. A run computes them once,
\* when it starts, and keeps them in the variable memo; the operators below
\* look a match up there.
Matches ==
    [githubReviewRegexp |-> [s \in ActionTexts |-> githubReviewRegexp(s)],
     labelRegexp |-> [s \in ActionTexts |-> labelRegexp(s)],
     moveToRegexp |-> [s \in ActionTexts |-> moveToRegexp(s)],
     githubPullRequestRegexp |-> [s \in PrefetchTexts |-> githubPullRequestRegexp(s)],
     githubPullRequestURLRegex |-> [s \in BodyTexts |-> githubPullRequestURLRegex(s)],
     parseGitHubNotification |-> [s \in BodyTexts |-> parseGitHubNotification(s)]]

VARIABLE memo

\* ------------------------------------------------------------------ errors

\* An error is the list of the message parts of its wrap chain, outermost
\* first ("a: b: c" is <<"a", "b", "c">>); <<>> is nil.
Nil == <<>>
Wrap(err, part) == <<part>> \o err

\* The error of a cancelled context (context.Canceled).
Canceled == <<"context canceled">>

\* errors.Is(err, context.Canceled): the root of the chain is that error.
IsCanceled_never(err) == FALSE
IsCanceled(err) == err # Nil /\ err[Len(err)] = "context canceled"

\* transientErrors: each signature as the message parts it spans
\* ("dial IMAP server: EOF" spans a wrap and its cause).
transientErrors ==
    << <<"unexpected EOF">>,
       <<"connection reset by peer">>,
       <<"i/o timeout">>,
       <<"use of closed network connection">>,
       <<"dial IMAP server", "EOF">>,
       <<"imap: NO Lookup failed">>,
       <<"imap: NO System Error (Failure)">> >>

\* strings.Contains(errMsg, sig), on message parts
ContainsParts(err, sig) ==
    \E i \in 1..Len(err) :
        /\ i + Len(sig) - 1 <= Len(err)
        /\ \A k \in 1..Len(sig) : err[i + k - 1] = sig[k]

isTransientError(err) ==
    IF err = Nil THEN FALSE
    ELSE \E n \in 1..Len(transientErrors) : ContainsParts(err, transientErrors[n])

\* ------------------------------------------------------------------ expr

\* Values an expression can evaluate to.
VNil == [t |-> "nil", b |-> FALSE, s |-> ""]
VBool(b) == [t |-> "bool", b |-> b, s |-> ""]
VString(s) == [t |-> "string", b |-> FALSE, s |-> s]

\* fmt.Sprintf("%v", result)
Sprintf(v) ==
    CASE v.t = "nil" -> "<nil>"
      [] v.t = "bool" -> IF v.b THEN "true" ELSE "false"
      [] v.t = "string" -> v.s

prefetchGitHubPullRequestKey == "githubPullRequest"

\* An empty Go map.
EmptyMap == [k \in {} |-> 0]

\* githubPullRequest.Env() is the record itself: owner, repo, number, author.

\* expr.Run(f.CompiledCondition, env) for the conditions of the model:
\*   true, false, nil                      literals
\*   inFrom a     "<a>" in message.from
\*   subject      message.subject          (a string, not a boolean)
\*   authorIs u   githubPullRequest.author == "<u>"
\*                (a runtime error when the namespace is not bound)
\*   hasPR        githubPullRequest != nil
exprRun(cond, env) ==
    CASE cond.op = "true" -> [val |-> VBool(TRUE), err |-> FALSE]
      [] cond.op = "false" -> [val |-> VBool(FALSE), err |-> FALSE]
      [] cond.op = "nil" -> [val |-> VNil, err |-> FALSE]
      [] cond.op = "inFrom" ->
            [val |-> VBool(\E i \in 1..Len(env.message.from) :
                               env.message.from[i] = cond.arg),
             err |-> FALSE]
      [] cond.op = "subject" -> [val |-> VString(env.message.subject), err |-> FALSE]
      [] cond.op = "authorIs" ->
            IF prefetchGitHubPullRequestKey \in DOMAIN env.prefetch
            THEN [val |-> VBool(env.prefetch[prefetchGitHubPullRequestKey].author
                                = cond.arg),
                  err |-> FALSE]
            ELSE [val |-> VNil, err |-> TRUE]
      [] cond.op = "hasPR" ->
            [val |-> VBool(prefetchGitHubPullRequestKey \in DOMAIN env.prefetch),
             err |-> FALSE]

\* ------------------------------------------------------------------ prefetch

\* One external call, as the log of a message's processing records it: the
\* operation, the UID it names (0 for a call that names none), its argument
\* and whether it succeeded.
Call(op, uid, arg, ok) == [op |-> op, uid |-> uid, arg |-> arg, ok |-> ok]

\* What the cache lookup of executePrefetchGitHubPullRequest finds.
CacheHit_never(cache, cacheKey) == FALSE
CacheHit(cache, cacheKey) == cacheKey \in DOMAIN cache

\* A prefetch that goes on to PullRequests.Get with whatever the parse left.
executePrefetchGitHubPullRequest_unparsed(cache, body, get) ==
    LET p == memo.parseGitHubNotification[body]
        cacheKey == CacheKey(p.owner, p.repo, p.number)
        pullRequest == [owner |-> p.owner, repo |-> p.repo, number |-> p.number,
                        author |-> get]
    IN IF get = "fail"
       THEN [ok |-> FALSE, pr |-> pullRequest, cache |-> cache,
             calls |-> <<Call("PullRequests.Get", 0, cacheKey, FALSE)>>]
       ELSE [ok |-> TRUE, pr |-> pullRequest,
             cache |-> (cacheKey :> pullRequest) @@ cache,
             calls |-> <<Call("PullRequests.Get", 0, cacheKey, TRUE)>>]

\* executePrefetchGitHubPullRequest; get is what PullRequests.Get answers if
\* it is called: "fail", or the login of the pull request's author.
executePrefetchGitHubPullRequest(cache, body, get) ==
    LET p == memo.parseGitHubNotification[body]
        cacheKey == CacheKey(p.owner, p.repo, p.number)
        pullRequest == [owner |-> p.owner, repo |-> p.repo, number |-> p.number,
                        author |-> get]
    IN IF ~p.ok
       THEN [ok |-> FALSE, pr |-> pullRequest, cache |-> cache, calls |-> <<>>]
       ELSE IF CacheHit(cache, cacheKey)
       THEN [ok |-> TRUE, pr |-> cache[cacheKey], cache |-> cache, calls |-> <<>>]
       ELSE IF get = "fail"
       THEN [ok |-> FALSE, pr |-> pullRequest, cache |-> cache,
             calls |-> <<Call("PullRequests.Get", 0, cacheKey, FALSE)>>]
       ELSE [ok |-> TRUE, pr |-> pullRequest,
             cache |-> (cacheKey :> pullRequest) @@ cache,
             calls |-> <<Call("PullRequests.Get", 0, cacheKey, TRUE)>>]

\* ------------------------------------------------------------------ review

\* The login Users.Get answers for the token's owner.
CurrentUser == "me"

Contains(list, e) == \E i \in 1..Len(list) : list[i] = e
LogEntry(level, msg) == [level |-> level, msg |-> msg]

\* The loop over the reviews: an APPROVED review by the current user exists.
AlreadyApproved(reviews, pr, currentUser) ==
    \E r \in reviews : r.pr = pr /\ r.user = currentUser /\ r.state = "APPROVED"

\* The two allow-list checks, in the order they are made: "repo" or "author"
\* names the first check that fails, "pass" that both hold.
AllowListGate_authorFirst(approval, repoFullName, author) ==
    IF ~Contains(approval.AllowedUsernames, author) THEN "author"
    ELSE IF ~Contains(approval.AllowedRepositories, repoFullName) THEN "repo"
    ELSE "pass"
AllowListGate_repoOnly(approval, repoFullName, author) ==
    IF ~Contains(approval.AllowedRepositories, repoFullName) THEN "repo"
    ELSE "pass"
AllowListGate(approval, repoFullName, author) ==
    IF ~Contains(approval.AllowedRepositories, repoFullName) THEN "repo"
    ELSE IF ~Contains(approval.AllowedUsernames, author) THEN "author"
    ELSE "pass"

\* processGitHubReview; reviews is the set of the reviews GitHub holds, gh the
\* call of this action that fails ("listErr", "userErr", "createErr") or "ok",
\* cause the error that call then returns.
processGitHubReview(github, uid, prefetchData, reviews, gh, cause) ==
    IF prefetchGitHubPullRequestKey \notin DOMAIN prefetchData
    THEN [err |-> <<"invalid GitHub pull request prefetch data type">>,
          calls |-> <<>>, logs |-> <<>>, reviews |-> reviews]
    ELSE
    LET prData == prefetchData[prefetchGitHubPullRequestKey]
        repoFullName == prData.owner \o <<"/">> \o prData.repo
        pr == CacheKey(prData.owner, prData.repo, prData.number)
        gate == AllowListGate(github.Approval, repoFullName, prData.author)
        list == Call("PullRequests.ListReviews", 0, pr, gh # "listErr")
        user == Call("Users.Get", 0, <<>>, gh # "userErr")
        create == Call("PullRequests.CreateReview", 0, pr, gh # "createErr")
    IN CASE gate = "repo" ->
              [err |-> Nil, calls |-> <<>>,
               logs |-> <<LogEntry("debug", "Repository not in allowed list")>>,
               reviews |-> reviews]
         [] gate = "author" ->
              [err |-> Nil, calls |-> <<>>,
               logs |-> <<LogEntry("debug", "Author not in allowed list")>>,
               reviews |-> reviews]
         [] gate = "pass" /\ gh = "listErr" ->
              [err |-> Wrap(cause, "list reviews for GitHub pull request"),
               calls |-> <<list>>, logs |-> <<>>, reviews |-> reviews]
         [] gate = "pass" /\ gh = "userErr" ->
              [err |-> Wrap(cause, "get current user"),
               calls |-> <<list, user>>, logs |-> <<>>, reviews |-> reviews]
         [] gate = "pass" /\ gh \notin {"listErr", "userErr"}
                 /\ AlreadyApproved(reviews, pr, CurrentUser) ->
              [err |-> Nil, calls |-> <<list, user>>,
               logs |-> <<LogEntry("debug", "Already approved GitHub pull request")>>,
               reviews |-> reviews]
         [] gate = "pass" /\ gh = "createErr"
                 /\ ~AlreadyApproved(reviews, pr, CurrentUser) ->
              [err |-> Wrap(cause, "approve GitHub pull request"),
               calls |-> <<list, user, create>>, logs |-> <<>>, reviews |-> reviews]
         [] gate = "pass" /\ gh = "ok"
                 /\ ~AlreadyApproved(reviews, pr, CurrentUser) ->
              [err |-> Nil, calls |-> <<list, user, create>>,
               logs |-> <<LogEntry("info", "Successfully approved GitHub pull request")>>,
               reviews |-> reviews \cup
                   {[pr |-> pr, user |-> CurrentUser, state |-> "APPROVED"]}]

\* ------------------------------------------------------------------ processMessage

FlagSeen == "\\Seen"

\* slices.Contains(msg.Flags, imap.FlagSeen)
IsSeen_never(msg) == FALSE
IsSeen(msg) == FlagSeen \in msg.Flags

\* fmt.Sprintf("%s@%s", addr.Mailbox, addr.Host) for every address of a list
Addresses(list) == [i \in 1..Len(list) |-> list[i].Mailbox \o <<"@">> \o list[i].Host]

\* The "message" namespace of the evaluation environment.
MessageEnv(msg) ==
    [from |-> Addresses(msg.Envelope.From),
     subject |-> msg.Envelope.Subject,
     body |-> msg.Body]

\* The state of one processMessage call: the locals prefetchData and actions,
\* the shared cache and GitHub's reviews as the call leaves them, and the log
\* of what it did (external calls in order, rules evaluated, log lines,
\* whether a move took the message out of the inbox).
StartState(cache, reviews) ==
    [prefetchData |-> EmptyMap, actions |-> <<>>, cache |-> cache,
     reviews |-> reviews, calls |-> <<>>, evals |-> <<>>, logs |-> <<>>,
     nGet |-> 0, nImap |-> 0, moved |-> FALSE, err |-> Nil]

\* The guard of a prefetch: it is the GitHub pull request prefetch, the body
\* holds a pull request URL, and no data is bound yet.
ShouldPrefetch_always(prefetch, body, prefetchData) ==
    /\ memo.githubPullRequestRegexp[prefetch]
    /\ memo.githubPullRequestURLRegex[body] # <<>>
ShouldPrefetch(prefetch, body, prefetchData) ==
    /\ memo.githubPullRequestRegexp[prefetch]
    /\ memo.githubPullRequestURLRegex[body] # <<>>
    /\ prefetchGitHubPullRequestKey \notin DOMAIN prefetchData

\* A prefetch loop without the guard and without the cache: every entry that
\* names the prefetch calls PullRequests.Get.
RECURSIVE PrefetchLoop_refetch(_, _, _, _, _)
PrefetchLoop_refetch(prefetches, j, st, body, gets) ==
    IF j > Len(prefetches) THEN st
    ELSE IF ~ShouldPrefetch_always(prefetches[j], body, st.prefetchData)
    THEN PrefetchLoop_refetch(prefetches, j + 1, st, body, gets)
    ELSE LET r == executePrefetchGitHubPullRequest(EmptyMap, body, gets[st.nGet + 1])
             st1 == [st EXCEPT !.calls = @ \o r.calls, !.nGet = @ + Len(r.calls)]
         IN IF ~r.ok
            THEN PrefetchLoop_refetch(prefetches, j + 1, st1, body, gets)
            ELSE PrefetchLoop_refetch(prefetches, j + 1,
                     [st1 EXCEPT !.prefetchData =
                         (prefetchGitHubPullRequestKey :> r.pr) @@ @],
                     body, gets)

\* for _, prefetch := range f.Prefetches, from the j-th on. gets[n] is the
\* answer to the n-th PullRequests.Get of this message.
RECURSIVE PrefetchLoop(_, _, _, _, _)
PrefetchLoop(prefetches, j, st, body, gets) ==
    IF j > Len(prefetches) THEN st
    ELSE IF ~ShouldPrefetch(prefetches[j], body, st.prefetchData)
    THEN PrefetchLoop(prefetches, j + 1, st, body, gets)
    ELSE LET r == executePrefetchGitHubPullRequest(st.cache, body, gets[st.nGet + 1])
             st1 == [st EXCEPT !.calls = @ \o r.calls,
                               !.nGet = @ + Len(r.calls),
                               !.cache = r.cache]
         IN IF ~r.ok
            THEN PrefetchLoop(prefetches, j + 1,
                     [st1 EXCEPT !.logs = Append(@, LogEntry("error",
                         "Failed to execute GitHub pull request prefetch"))],
                     body, gets)
            ELSE PrefetchLoop(prefetches, j + 1,
                     [st1 EXCEPT !.prefetchData =
                         (prefetchGitHubPullRequestKey :> r.pr) @@ @],
                     body, gets)

\* fmt.Sprintf("%v", result) == "true"
IsMatch_nilMatches(result) == Sprintf(result) \in {"true", "<nil>"}
IsMatch_boolOnly(result) == result.t = "bool" /\ result.b
IsMatch(result) == Sprintf(result) = "true"

\* if f.HaltOnMatch { break }
Halts_never(f) == FALSE
Halts(f) == f.HaltOnMatch

\* A rule loop that makes the prefetch data anew for every rule.
RECURSIVE FilterLoop_perRule(_, _, _, _, _)
FilterLoop_perRule(filters, i, st, msg, gets) ==
    IF i > Len(filters) THEN st
    ELSE LET f == filters[i]
             st1 == PrefetchLoop(f.Prefetches, 1,
                                 [st EXCEPT !.prefetchData = EmptyMap], msg.Body, gets)
             env == [message |-> MessageEnv(msg), prefetch |-> st1.prefetchData]
             r == exprRun(f.CompiledCondition, env)
             st2 == [st1 EXCEPT
                        !.evals = Append(@, [rule |-> i, matched |-> IsMatch(r.val)]),
                        !.logs = IF r.err
                                 THEN Append(@, LogEntry("error", "Failed to run expression"))
                                 ELSE @]
         IN IF IsMatch(r.val)
            THEN LET st3 == [st2 EXCEPT !.actions = @ \o f.Actions]
                 IN IF Halts(f)
                    THEN [st3 EXCEPT !.logs = Append(@, LogEntry("debug", "Halt on match"))]
                    ELSE FilterLoop_perRule(filters, i + 1, st3, msg, gets)
            ELSE FilterLoop_perRule(filters, i + 1, st2, msg, gets)

\* for _, f := range config.Filters, from the i-th on
RECURSIVE FilterLoop(_, _, _, _, _)
FilterLoop(filters, i, st, msg, gets) ==
    IF i > Len(filters) THEN st
    ELSE LET f == filters[i]
             st1 == PrefetchLoop(f.Prefetches, 1, st, msg.Body, gets)
             env == [message |-> MessageEnv(msg), prefetch |-> st1.prefetchData]
             r == exprRun(f.CompiledCondition, env)
             st2 == [st1 EXCEPT
                        !.evals = Append(@, [rule |-> i, matched |-> IsMatch(r.val)]),
                        !.logs = IF r.err
                                 THEN Append(@, LogEntry("error", "Failed to run expression"))
                                 ELSE @]
         IN IF IsMatch(r.val)
            THEN LET st3 == [st2 EXCEPT !.actions = @ \o f.Actions]
                 IN IF Halts(f)
                    THEN [st3 EXCEPT !.logs = Append(@, LogEntry("debug", "Halt on match"))]
                    ELSE FilterLoop(filters, i + 1, st3, msg, gets)
            ELSE FilterLoop(filters, i + 1, st2, msg, gets)

Trash_spam == <<"[","G","m","a","i","l","]","/","S","p","a","m">>
Trash == <<"[","G","m","a","i","l","]","/","T","r","a","s","h">>

\* uidSet := imap.UIDSetNum(); uidSet.AddNum(msg.UID): the set of UIDs a
\* mail-store call names.
UIDSetNum_withNext(uid) == {uid, uid + 1}
UIDSetNum(uid) == {uid}

\* One client.Move or client.Copy of the message: the call is logged; it fails
\* with cause when it is the failAt-th mail-store call of this message. A move
\* that succeeds takes the message out of the inbox.
ImapCall(st, op, uid, mailbox, failAt, cause, wrap) ==
    LET fails == st.nImap + 1 = failAt
    IN [st EXCEPT !.calls = Append(@, Call(op, uid, mailbox, ~fails)),
                  !.nImap = @ + 1,
                  !.moved = @ \/ (op = "Move" /\ ~fails),
                  !.err = IF fails THEN Wrap(cause, wrap) ELSE Nil]

\* A dispatcher that reads every keyword without regard to letter case.
ActionKind_fold(action, approvalEnabled) ==
    IF FoldLitAt(action, 1, W_delete) /\ Len(action) = Len(W_delete) THEN "delete"
    ELSE IF FoldLitAt(action, 1, W_label \o SP) THEN "label"
    ELSE IF FoldLitAt(action, 1, W_move \o SP \o W_to \o SP) THEN "move"
    ELSE IF approvalEnabled /\ memo.githubReviewRegexp[action] THEN "review"
    ELSE "unknown"

\* A dispatcher that takes a label or a move without a quoted argument for an
\* unknown action.
ActionKind_needsArgument(action, approvalEnabled) ==
    IF action = W_delete THEN "delete"
    ELSE IF HasPrefix(action, W_label \o SP) /\ Len(memo.labelRegexp[action]) >= 2
    THEN "label"
    ELSE IF HasPrefix(action, W_move \o SP \o W_to \o SP)
            /\ Len(memo.moveToRegexp[action]) >= 2
    THEN "move"
    ELSE IF approvalEnabled /\ memo.githubReviewRegexp[action] THEN "review"
    ELSE "unknown"

\* The branch of the dispatcher an action string takes.
ActionKind(action, approvalEnabled) ==
    IF action = W_delete THEN "delete"
    ELSE IF HasPrefix(action, W_label \o SP) THEN "label"
    ELSE IF HasPrefix(action, W_move \o SP \o W_to \o SP) THEN "move"
    ELSE IF approvalEnabled /\ memo.githubReviewRegexp[action] THEN "review"
    ELSE "unknown"

\* logger.Warn("Unknown action", "action", action): the action is skipped.
UnknownAction_fails(st) == [st EXCEPT !.err = <<"unknown action">>]
UnknownAction(st) == [st EXCEPT !.logs = Append(@, LogEntry("warn", "Unknown action"))]

\* The body of  for _, action := range actions  for one action.
DoAction(st, action, msg, config, o) ==
    LET kind == ActionKind(action, config.GitHub.Approval.Enabled)
    IN CASE kind = "delete" ->
              ImapCall(st, "Move", UIDSetNum(msg.UID), Trash, o.failAt, o.cause, "move email to trash")
         [] kind = "label" ->
              LET match == memo.labelRegexp[action]
              IN IF Len(match) < 2
                 THEN [st EXCEPT !.err = <<"invalid label action format">>]
                 ELSE ImapCall(st, "Copy", UIDSetNum(msg.UID), match[2], o.failAt, o.cause,
                               "copy email to label")
         [] kind = "move" ->
              LET match == memo.moveToRegexp[action]
              IN IF Len(match) < 2
                 THEN [st EXCEPT !.err = <<"invalid move to action format">>]
                 ELSE ImapCall(st, "Move", UIDSetNum(msg.UID), match[2], o.failAt, o.cause,
                               "move email to mailbox")
         [] kind = "review" ->
              LET r == processGitHubReview(config.GitHub, msg.UID, st.prefetchData,
                                           st.reviews, o.gh, o.cause)
              IN [st EXCEPT !.calls = @ \o r.calls,
                            !.logs = @ \o r.logs,
                            !.reviews = r.reviews,
                            !.err = IF r.err = Nil THEN Nil
                                    ELSE Wrap(r.err, "process GitHub review action")]
         [] kind = "unknown" -> UnknownAction(st)

\* A dispatcher that goes on with the next action after an error.
RECURSIVE ActionLoop_continue(_, _, _, _, _)
ActionLoop_continue(k, st, msg, config, o) ==
    IF k > Len(st.actions) THEN st
    ELSE ActionLoop_continue(k + 1, DoAction(st, st.actions[k], msg, config, o),
                             msg, config, o)

\* A dispatcher that takes the pending actions last to first.
RECURSIVE ActionLoop_backwards(_, _, _, _, _)
ActionLoop_backwards(k, st, msg, config, o) ==
    IF k > Len(st.actions) THEN st
    ELSE LET st1 == DoAction(st, st.actions[Len(st.actions) + 1 - k], msg, config, o)
         IN IF st1.err # Nil THEN st1
            ELSE ActionLoop_backwards(k + 1, st1, msg, config, o)

\* for _, action := range actions, from the k-th on; an error returns at once.
RECURSIVE ActionLoop(_, _, _, _, _)
ActionLoop(k, st, msg, config, o) ==
    IF k > Len(st.actions) THEN st
    ELSE LET st1 == DoAction(st, st.actions[k], msg, config, o)
         IN IF st1.err # Nil THEN st1
            ELSE ActionLoop(k + 1, st1, msg, config, o)

\* if dryRun { return nil }
DryRunReturns_never(dryRun) == FALSE
DryRunReturns(dryRun) == dryRun

\* processMessage. o holds what the outside world answers during the call:
\* o.gets (PullRequests.Get, in call order), o.failAt and o.cause (the
\* mail-store call that fails and its error), o.gh (the GitHub call of a
\* review that fails).
processMessage(dryRun, config, msg, cache, reviews, o) ==
    IF IsSeen(msg) THEN StartState(cache, reviews)
    ELSE LET st1 == FilterLoop(config.Filters, 1, StartState(cache, reviews), msg, o.gets)
         IN IF Len(st1.actions) = 0
            THEN [st1 EXCEPT !.logs = Append(@, LogEntry("debug", "No actions matched"))]
            ELSE LET st2 == [st1 EXCEPT !.logs = Append(@, LogEntry("info", "Actions matched"))]
                 IN IF DryRunReturns(dryRun) THEN st2
                    ELSE ActionLoop(1, st2, msg, config, o)

\* ------------------------------------------------------------------ configuration

\* time.Minute, in seconds
Minute == 60

\* time.ParseDuration, for the interval strings of the model
ParseDuration(str) ==
    CASE str = "15s" -> 15
      [] str = "20s" -> 20
      [] str = "45s" -> 45
      [] str = "90s" -> 90
      [] str = "2m" -> 120

\* parseConfig: if c.Server.SleepInterval == "" { c.Server.SleepInterval = "15s" }
DefaultSleepInterval(config) ==
    IF config.Server.SleepInterval = ""
    THEN [config EXCEPT !.Server.SleepInterval = "15s"]
    ELSE config

\* ------------------------------------------------------------------ state

VARIABLES
    mode,                    \* "once" or "server": the command that runs
    uidsArg,                 \* --uids as given on the command line ("" when absent)
    slog,                    \* runServer: what the loop logged after the last cycle
    lg,                      \* the logger of the command and what it received
    late,                    \* history: what runOnce did after the signal was delivered
    config,                  \* the parsed configuration
    dryRun,                  \* --dry-run
    targetUIDs,              \* --uids of a once run (empty in server mode)
    inbox,                   \* INBOX of the mail store, in sequence-number order
    reviews,                 \* the reviews GitHub holds
    githubPullRequestCache,  \* the package-level prefetch cache
    processedUIDs,           \* the ledger of the run
    pc,                      \* where the command is
    idx,                     \* runOnce: first sequence number of the window
    messages,                \* runOnce: the page fetched last
    pos,                     \* runOnce: index in messages of the next message
    sessions,                \* mail-store connections currently open
    err,                     \* what runOnce returned
    ctxDone,                 \* the context is cancelled
    backoffTimes,            \* runServer: the failure counter
    sleepInterval,           \* runServer: the sleep computed last
    nTransient,              \* history: transient failures since the last cycle that did not fail
    otherSeen,               \* history: a non-transient failure happened since then
    failureCap,              \* the largest value the model lets the failure counter take
    last                     \* history: what the last step of runOnce did

vars == <<memo, uidsArg, slog, lg, late, mode, config, dryRun, targetUIDs, inbox, reviews,
          githubPullRequestCache, processedUIDs, pc, idx, messages, pos,
          sessions, err, ctxDone, backoffTimes, sleepInterval, nTransient,
          otherSeen, failureCap, last>>

\* ------------------------------------------------------------------ runOnce

\* What the last step of runOnce did: the step, the message it was about, the
\* cache and the reviews as the step found them, and the outcome of
\* processMessage if it was called.
NoMessage == [UID |-> 0, Flags |-> {}, Envelope |-> [From |-> <<>>, Subject |-> ""],
              Body |-> <<>>]
NoLast == [step |-> "none", msg |-> NoMessage, cache0 |-> EmptyMap, reviews0 |-> {},
           res |-> StartState(EmptyMap, {})]

\* Nothing was done after the signal (or no signal was delivered): the
\* numbers of pages fetched and of messages passed to processMessage since.
NoLate == [fetches |-> 0, processed |-> 0]

\* The errors the mail store and GitHub answer with.
ErrCauses == {<<"unexpected EOF">>, <<"EOF">>, <<"permission denied">>}

\* Number of prefetch entries and of actions of a configuration: no message
\* makes more PullRequests.Get calls, nor more mail-store calls.
RECURSIVE SumLen(_, _)
SumLen(filters, field) ==
    IF filters = <<>> THEN 0
    ELSE Len(Head(filters)[field]) + SumLen(Tail(filters), field)

\* The errors a call made for a message answers with.
MsgCauses == {<<"unexpected EOF">>, <<"permission denied">>}

Authors == {"alice", "mallory"}

\* What the outside world may answer during one processMessage call:
\*   gets    PullRequests.Get, in call order: failFirst failures, then the
\*           pull request with the given author (once a call succeeds the data
\*           is bound and the message makes no further call)
\*   failAt  the mail-store call that fails (0: none)
\*   gh      the GitHub call of a review action that fails
\*   cause   the error of the failing call
\* At most one failing call is chosen, since the first error ends the call.
Oracles(cfg) ==
    LET n == SumLen(cfg.Filters, "Prefetches")
    IN {[gets |-> [k \in 1..n |-> IF k <= ff THEN "fail" ELSE au],
         failAt |-> fa, gh |-> gh, cause |-> cause] :
           ff \in 0..n, au \in Authors,
           fa \in 0..SumLen(cfg.Filters, "Actions"),
           gh \in {"ok", "listErr", "userErr", "createErr"},
           cause \in MsgCauses}

\* The failure counter is kept within failureCap: a failure that would raise
\* it further is not injected.
CapOK(e) == ~(mode = "server" /\ isTransientError(e) /\ backoffTimes >= failureCap)

\* A return that leaves the session open.
Return_leak(e) ==
    /\ CapOK(e)
    /\ err' = e
    /\ pc' = "ret"
    /\ sessions' = sessions
    /\ messages' = <<>>
    /\ pos' = 0
    /\ idx' = 0

\* return e, with the deferred closeClient()
Return(e) ==
    /\ CapOK(e)
    /\ err' = e
    /\ pc' = "ret"
    /\ sessions' = sessions - 1
    /\ messages' = <<>>
    /\ pos' = 0
    /\ idx' = 0

\* getAuthenticatedClient and client.Select, the head of runOnce
Connect ==
    /\ pc = "start"
    /\ last' = NoLast
    /\ \E outcome \in {"ok", "dial", "login", "select"}, cause \in ErrCauses :
         CASE outcome = "ok" ->
                /\ cause = <<"EOF">>
                /\ pc' = "page"
                /\ idx' = 1
                /\ sessions' = sessions + 1
                /\ UNCHANGED <<err, messages, pos>>
           [] outcome = "dial" ->
                /\ err' = Wrap(Wrap(cause, "dial IMAP server"),
                               "get authenticated IMAP client")
                /\ CapOK(err')
                /\ pc' = "ret"
                /\ UNCHANGED <<idx, sessions, messages, pos>>
           [] outcome = "login" ->
                \* the connection is opened and closed again before the return
                /\ err' = Wrap(Wrap(cause, "login to IMAP server"),
                               "get authenticated IMAP client")
                /\ CapOK(err')
                /\ pc' = "ret"
                /\ UNCHANGED <<idx, sessions, messages, pos>>
           [] outcome = "select" ->
                \* the session is open when Select fails; the defer closes it
                /\ err' = Wrap(cause, "select INBOX")
                /\ CapOK(err')
                /\ pc' = "ret"
                /\ UNCHANGED <<idx, sessions, messages, pos>>
    /\ UNCHANGED <<memo, uidsArg, slog, lg, late,
                   mode, config, dryRun, failureCap, targetUIDs, inbox, reviews,
                   githubPullRequestCache, processedUIDs, ctxDone, backoffTimes,
                   sleepInterval, nTransient, otherSeen>>

\* The messages whose sequence numbers lie in from..to.
Window(box, from, to) ==
    IF from > Len(box) THEN <<>>
    ELSE SubSeq(box, from, IF to > Len(box) THEN Len(box) ELSE to)

\* The head of the page loop:  select { case <-ctx.Done(): return ctx.Err()
\* default: } . The check and the fetch that follows it are two steps: the
\* signal handler runs in a goroutine of its own and may cancel in between.
CheckPage ==
    /\ pc = "page"
    /\ last' = NoLast
    /\ IF ctxDone THEN Return(Canceled)
       ELSE /\ pc' = "fetch"
            /\ UNCHANGED <<idx, messages, pos, sessions, err>>
    /\ UNCHANGED <<memo, uidsArg, slog, lg, late,
                   mode, config, dryRun, failureCap, targetUIDs, inbox, reviews,
                   githubPullRequestCache, processedUIDs, ctxDone, backoffTimes,
                   sleepInterval, nTransient, otherSeen>>

\* client.Fetch of the window idx..idx+PageStep; an empty page ends the cycle.
FetchPage ==
    /\ pc = "fetch"
    /\ last' = NoLast
    /\ late' = IF ctxDone THEN [late EXCEPT !.fetches = @ + 1] ELSE late
    /\ \/ \E cause \in ErrCauses : Return(Wrap(cause, "fetch messages"))
       \/ LET page == Window(inbox, idx, idx + PageStep)
          IN IF Len(page) = 0 THEN Return(Nil)
             ELSE /\ messages' = page
                  /\ pos' = 1
                  /\ pc' = "msgs"
                  /\ UNCHANGED <<idx, sessions, err>>
    /\ UNCHANGED <<memo, uidsArg, slog, lg,
                   mode, config, dryRun, failureCap, targetUIDs, inbox, reviews,
                   githubPullRequestCache, processedUIDs, ctxDone, backoffTimes,
                   sleepInterval, nTransient, otherSeen>>

\* The end of one iteration of  for _, msg := range messages ; after the last
\* message of the page the window advances.
Continue ==
    IF pos + 1 > Len(messages)
    THEN /\ pc' = "page"
         /\ idx' = idx + PageStep
         /\ messages' = <<>>
         /\ pos' = 0
         /\ UNCHANGED <<sessions, err>>
    ELSE /\ pos' = pos + 1
         /\ pc' = "msgs"
         /\ UNCHANGED <<idx, messages, sessions, err>>

\* The cancellation check at the head of the message loop; what is done with
\* the message is a later step.
DoneAtMessage_never(done) == FALSE
DoneAtMessage(done) == done

CheckMessage ==
    /\ pc = "msgs"
    /\ last' = NoLast
    /\ IF DoneAtMessage(ctxDone) THEN Return(Canceled)
       ELSE /\ pc' = "msg"
            /\ UNCHANGED <<idx, messages, pos, sessions, err>>
    /\ UNCHANGED <<memo, uidsArg, slog, lg, late,
                   mode, config, dryRun, failureCap, targetUIDs, inbox, reviews,
                   githubPullRequestCache, processedUIDs, ctxDone, backoffTimes,
                   sleepInterval, nTransient, otherSeen>>

\* if _, ok := processedUIDs[msg.UID]; ok { continue }
InLedger_never(ledger, uid) == FALSE
InLedger(ledger, uid) == uid \in ledger

SkipProcessed ==
    /\ pc = "msg"
    /\ InLedger(processedUIDs, messages[pos].UID)
    /\ last' = [NoLast EXCEPT !.step = "skipProcessed", !.msg = messages[pos]]
    /\ Continue
    /\ UNCHANGED <<memo, uidsArg, slog, lg, late,
                   mode, config, dryRun, failureCap, targetUIDs, inbox, reviews,
                   githubPullRequestCache, processedUIDs, ctxDone, backoffTimes,
                   sleepInterval, nTransient, otherSeen>>

\* if len(targetUIDs) > 0 { if _, ok := targetUIDs[msg.UID]; !ok { continue } }
NotTargeted(targets, uid) == Cardinality(targets) > 0 /\ uid \notin targets

SkipNotTarget ==
    /\ pc = "msg"
    /\ ~InLedger(processedUIDs, messages[pos].UID)
    /\ NotTargeted(targetUIDs, messages[pos].UID)
    /\ last' = [NoLast EXCEPT !.step = "skipTarget", !.msg = messages[pos]]
    /\ Continue
    /\ UNCHANGED <<memo, uidsArg, slog, lg, late,
                   mode, config, dryRun, failureCap, targetUIDs, inbox, reviews,
                   githubPullRequestCache, processedUIDs, ctxDone, backoffTimes,
                   sleepInterval, nTransient, otherSeen>>

\* The inbox without the message uid.
RECURSIVE Without(_, _)
Without(box, uid) ==
    IF box = <<>> THEN <<>>
    ELSE IF Head(box).UID = uid THEN Without(Tail(box), uid)
    ELSE <<Head(box)>> \o Without(Tail(box), uid)

\* The ledger after processMessage returned e for uid:
\* processedUIDs[msg.UID] = struct{}{} follows the error return.
LedgerAfter_always(ledger, uid, e) == ledger \cup {uid}
LedgerAfter_never(ledger, uid, e) == ledger
LedgerAfter_onFailure(ledger, uid, e) == IF e # Nil THEN ledger \cup {uid} ELSE ledger
LedgerAfter_fresh(ledger, uid, e) == IF e # Nil THEN ledger ELSE {uid}
LedgerAfter(ledger, uid, e) == IF e # Nil THEN ledger ELSE ledger \cup {uid}

\* if err != nil { return errors.Wrapf(err, "uid %d", msg.UID) }
ProcessingFailed_never(e) == FALSE
ProcessingFailed(e) == e # Nil

\* err = processMessage(...); on an error return it wrapped with the UID, else
\* record the UID and go on with the next message.
ProcessMessage ==
    /\ pc = "msg"
    /\ late' = IF ctxDone THEN [late EXCEPT !.processed = @ + 1] ELSE late
    /\ ~InLedger(processedUIDs, messages[pos].UID)
    /\ ~NotTargeted(targetUIDs, messages[pos].UID)
    /\ \E o \in Oracles(config) :
         /\ ~(o.failAt > 0 /\ o.gh # "ok")
         /\ (o.failAt = 0 /\ o.gh = "ok") => o.cause = <<"permission denied">>
         /\ \E msg \in {messages[pos]} :
            \E res \in {processMessage(dryRun, config, msg, githubPullRequestCache,
                                       reviews, o)} :
              /\ last' = [step |-> "process", msg |-> msg,
                           cache0 |-> githubPullRequestCache, reviews0 |-> reviews,
                           res |-> res]
              /\ githubPullRequestCache' = res.cache
              /\ reviews' = res.reviews
              /\ inbox' = IF res.moved THEN Without(inbox, msg.UID) ELSE inbox
              /\ processedUIDs' = LedgerAfter(processedUIDs, msg.UID, res.err)
              /\ IF ProcessingFailed(res.err)
                 THEN Return(Wrap(res.err, "uid"))
                 ELSE Continue
    /\ UNCHANGED <<memo, uidsArg, slog, lg,
                   mode, config, dryRun, failureCap, targetUIDs, ctxDone,
                   backoffTimes, sleepInterval, nTransient, otherSeen>>

\* ------------------------------------------------------------------ runServer

\* configuredSleepInternal, _ := time.ParseDuration(config.Server.SleepInterval)
configuredSleepInternal == ParseDuration(config.Server.SleepInterval)

\* The failure counter after a cycle that returned e.
NextBackoffTimes_anyFailure(e, n) ==
    IF e # Nil /\ ~IsCanceled(e) THEN n + 1 ELSE 0
NextBackoffTimes_resetOnOther(e, n) ==
    IF e # Nil /\ ~IsCanceled(e) /\ isTransientError(e) THEN n + 1 ELSE 0
NextBackoffTimes(e, n) ==
    IF e # Nil /\ ~IsCanceled(e)
    THEN IF isTransientError(e) THEN n + 1 ELSE n
    ELSE 0

\* sleepInterval := configuredSleepInternal * time.Duration(backoffTimes+1),
\* capped at time.Minute
SleepFor_uncapped(configured, n) == configured * (n + 1)
SleepFor(configured, n) ==
    LET d == configured * (n + 1)
    IN IF d > Minute THEN Minute ELSE d

\* if backoffTimes%5 == 0 { logger.Error } else { logger.Warn }
EscalateEvery == 5
FailureLevel_first(n) == IF n % EscalateEvery = 1 THEN "error" ELSE "warn"
FailureLevel(n) == IF n % EscalateEvery = 0 THEN "error" ELSE "warn"

\* What the server loop logs after a cycle that returned e: n is the failure
\* counter and d the sleep interval, both as computed after the cycle.
CycleLogs(e, n, d, configured) ==
    (IF e # Nil /\ ~IsCanceled(e)
     THEN IF isTransientError(e)
          THEN <<LogEntry(FailureLevel(n), "Failed to process messages")>>
          ELSE <<LogEntry("error", "Failed to process messages")>>
     ELSE <<>>)
    \o (IF d > configured THEN <<LogEntry("warn", "Backing off")>> ELSE <<>>)

\* The body of the server loop after runOnce returned, up to the select.
AfterCycle ==
    /\ pc = "ret"
    /\ mode = "server"
    /\ backoffTimes' = NextBackoffTimes(err, backoffTimes)
    /\ sleepInterval' = SleepFor(configuredSleepInternal, backoffTimes')
    /\ slog' = CycleLogs(err, backoffTimes', sleepInterval', configuredSleepInternal)
    /\ nTransient' = IF err = Nil \/ IsCanceled(err) THEN 0
                     ELSE IF isTransientError(err) THEN nTransient + 1
                     ELSE nTransient
    /\ otherSeen' = IF err = Nil \/ IsCanceled(err) THEN FALSE
                    ELSE IF isTransientError(err) THEN otherSeen
                    ELSE TRUE
    /\ pc' = "sleep"
    /\ last' = NoLast
    /\ UNCHANGED <<memo, uidsArg, lg, late,
                   mode, config, dryRun, failureCap, targetUIDs, inbox, reviews,
                   githubPullRequestCache, processedUIDs, idx, messages, pos,
                   sessions, err, ctxDone>>

\* case <-time.After(sleepInterval): the next cycle starts. With the context
\* already cancelled the select takes this case only if the timer is ready at
\* once.
WakeUp ==
    /\ pc = "sleep"
    /\ ~ctxDone \/ sleepInterval <= 0
    /\ pc' = "start"
    /\ last' = NoLast
    /\ UNCHANGED <<memo, uidsArg, slog, lg, late,
                   mode, config, dryRun, failureCap, targetUIDs, inbox, reviews,
                   githubPullRequestCache, processedUIDs, idx, messages, pos,
                   sessions, err, ctxDone, backoffTimes, sleepInterval,
                   nTransient, otherSeen>>

\* case <-ctx.Done(): break serverRoutine
StopServer ==
    /\ pc = "sleep"
    /\ ctxDone
    /\ pc' = "stopped"
    /\ last' = NoLast
    /\ UNCHANGED <<memo, uidsArg, slog, lg, late,
                   mode, config, dryRun, failureCap, targetUIDs, inbox, reviews,
                   githubPullRequestCache, processedUIDs, idx, messages, pos,
                   sessions, err, ctxDone, backoffTimes, sleepInterval,
                   nTransient, otherSeen>>

\* The goroutine that waits for SIGINT/SIGTERM and calls cancel().
Cancel ==
    /\ mode = "server"
    /\ pc \notin {"stopped", "load", "fatal"}
    /\ ~ctxDone
    /\ ctxDone' = TRUE
    /\ UNCHANGED <<memo, uidsArg, slog, lg, late,
                   mode, config, dryRun, failureCap, targetUIDs, inbox, reviews,
                   githubPullRequestCache, processedUIDs, pc, idx, messages, pos,
                   sessions, err, backoffTimes, sleepInterval, nTransient,
                   otherSeen, last>>

\* The once command returns what runOnce returned.
OnceExit ==
    /\ pc = "ret"
    /\ mode = "once"
    /\ pc' = "exit"
    /\ last' = NoLast
    /\ UNCHANGED <<memo, uidsArg, slog, lg, late,
                   mode, config, dryRun, failureCap, targetUIDs, inbox, reviews,
                   githubPullRequestCache, processedUIDs, idx, messages, pos,
                   sessions, err, ctxDone, backoffTimes, sleepInterval,
                   nTransient, otherSeen>>

\* ------------------------------------------------------------------ slackLogger

\* The levels of the log package, lowest first.
Levels == <<"debug", "info", "warn", "error", "fatal">>
LevelRank(level) == CHOOSE i \in 1..Len(Levels) : Levels[i] = level

\* A command without Slack integration (slack.send_log_level is empty): the
\* logger is not wrapped.
NoLogger == [level |-> "info", send |-> "", calls |-> <<>>, under |-> <<>>,
             posts |-> <<>>]

\* What http.Post to the webhook may answer: status 200, an error, or
\* another status.
PostOutcomes == {"ok", "postErr", "non200"}

\* s.underlying.Error(...) in sendToSlack: the failure of a post goes to the
\* wrapped logger, not to the wrapper.
ReportFailure_viaSlack(l, msg) ==
    [l EXCEPT !.under = Append(@, LogEntry("error", msg)),
              !.posts = Append(@, [level |-> "error", outcome |-> "ok"])]
ReportFailure(l, msg) == [l EXCEPT !.under = Append(@, LogEntry("error", msg))]

\* sendToSlack: nothing below the level of the wrapped logger is posted; the
\* message is posted and a failed or rejected post is reported. (json.Marshal
\* of two strings does not fail.)
sendToSlack(l, logLevel, outcome) ==
    IF LevelRank(logLevel) < LevelRank(l.level) THEN l
    ELSE LET l1 == [l EXCEPT !.posts = Append(@, [level |-> logLevel,
                                                   outcome |-> outcome])]
         IN CASE outcome = "ok" -> l1
              [] outcome = "postErr" -> ReportFailure(l1, "Failed to send to Slack")
              [] outcome = "non200" ->
                   ReportFailure(l1, "Slack webhook returned non-200 status")

\* Debug, Info, Warn and Error of the wrapper: the call goes to the wrapped
\* logger, then to Slack if sendLogLevel is at most the level of the call.
slackLogger(l, logLevel, outcome) ==
    LET l1 == [l EXCEPT !.calls = Append(@, logLevel),
                        !.under = Append(@, LogEntry(logLevel, "call"))]
    IN IF LevelRank(l.send) <= LevelRank(logLevel)
       THEN sendToSlack(l1, logLevel, outcome)
       ELSE l1

\* The largest number of log calls of a run of the logger.
MaxLogCalls == 3

\* One call of the wrapper at logLevel.
LogAt(logLevel) ==
    /\ pc = "log"
    /\ Len(lg.calls) < MaxLogCalls
    /\ \E outcome \in PostOutcomes : lg' = slackLogger(lg, logLevel, outcome)
    /\ UNCHANGED <<memo, uidsArg, slog, late, mode, config, dryRun, failureCap, targetUIDs,
                   inbox, reviews, githubPullRequestCache, processedUIDs, pc, idx,
                   messages, pos, sessions, err, ctxDone, backoffTimes,
                   sleepInterval, nTransient, otherSeen, last>>

Debug == LogAt("debug")
Info == LogAt("info")
Warn == LogAt("warn")
Error == LogAt("error")

\* ------------------------------------------------------------------ inputs

Cond(op, arg) == [op |-> op, arg |-> arg]

Filter(name, prefetches, cond, actions, halt) ==
    [Name |-> name, Prefetches |-> prefetches, CompiledCondition |-> cond,
     Actions |-> actions, HaltOnMatch |-> halt]

Message(uid, flags, from, subject, body) ==
    [UID |-> uid, Flags |-> flags,
     Envelope |-> [From |-> from, Subject |-> subject], Body |-> body]

GitHubConfig(enabled, users, repos) ==
    [Approval |-> [Enabled |-> enabled, AllowedUsernames |-> users,
                   AllowedRepositories |-> repos]]

\* parseConfig: the checks a configuration passes before a command runs.
HasReviewAction(f) ==
    \E i \in 1..Len(f.Actions) : githubReviewRegexp(f.Actions[i])
HasPullRequestPrefetch_any(f) == TRUE
HasPullRequestPrefetch(f) ==
    \E i \in 1..Len(f.Prefetches) : githubPullRequestRegexp(f.Prefetches[i])

\* expr.Compile(f.Condition) returns no error; "syntaxError" stands for a
\* condition that is no expression.
Compiles(cond) == cond.op # "syntaxError"

parseConfigOK(c) ==
    /\ c.GitHub.Approval.Enabled =>
          /\ Len(c.GitHub.Approval.AllowedUsernames) # 0
          /\ Len(c.GitHub.Approval.AllowedRepositories) # 0
    /\ \A i \in 1..Len(c.Filters) :
          /\ Compiles(c.Filters[i].CompiledCondition)
          /\ HasReviewAction(c.Filters[i]) =>
                /\ c.GitHub.Approval.Enabled
                /\ HasPullRequestPrefetch(c.Filters[i])

\* The head of a command: config, err := parseConfig(...); an error is
\* returned to main, which exits, else runServer or runOnce is called.
LoadConfig ==
    /\ pc = "load"
    /\ IF parseConfigOK(config)
       THEN /\ pc' = "start"
            /\ config' = DefaultSleepInterval(config)
       ELSE /\ pc' = "fatal"
            /\ UNCHANGED config
    /\ UNCHANGED <<memo, uidsArg, slog, lg, late,
                   mode, dryRun, failureCap, targetUIDs, inbox, reviews,
                   githubPullRequestCache, processedUIDs, idx, messages, pos,
                   sessions, err, ctxDone, backoffTimes, sleepInterval,
                   nTransient, otherSeen, last>>

\* ------------------------------------------------------------------ the run

PRAlice == [owner |-> <<"o">>, repo |-> <<"r">>, number |-> <<"7">>, author |-> "alice"]
KeyOR7 == CacheKey(<<"o">>, <<"r">>, <<"7">>)
Review(pr, user, state) == [pr |-> pr, user |-> user, state |-> state]

\* The messages of the model's inboxes, without their UID.
Arrivals ==
    {Message(0, {}, <<AddrA>>, "hello", BodyPR7),
     Message(0, {}, <<AddrA>>, "hello", BodyPR007),
     Message(0, {}, <<AddrB>>, "true", BodyPlain),
     Message(0, {FlagSeen}, <<AddrB>>, "hello", BodyEvil)}

\* INBOX with n messages; the mail store numbers them with ascending UIDs.
Inboxes(n) ==
    {[i \in 1..n |-> [f[i] EXCEPT !.UID = i]] :
        f \in {g \in [1..n -> Arrivals] : \A i, j \in 1..n : g[i] = g[j] => i = j}}

\* The configuration of the runs: a rule that declares the prefetch, approves
\* and labels, then a halting rule that deletes.
RunFilters ==
    <<Filter("approve", <<PrefetchPR>>, Cond("hasPR", <<>>), <<ActReview, ActLabelA>>, FALSE),
      Filter("trash", <<>>, Cond("inFrom", <<"b", "@", "x">>), <<ActDelete>>, TRUE)>>

RunConfig(interval) ==
    DefaultSleepInterval(
        [Server |-> [SleepInterval |-> interval],
         GitHub |-> GitHubConfig(TRUE, <<"alice">>, <<RepoOR>>),
         Filters |-> RunFilters])

\* The state in which a command starts.
InitCommand ==
    /\ slog = <<>>
    /\ lg = NoLogger
    /\ late = NoLate
    /\ reviews = {}
    /\ githubPullRequestCache = EmptyMap
    /\ processedUIDs = {}
    /\ pc = "start"
    /\ idx = 0
    /\ messages = <<>>
    /\ pos = 0
    /\ sessions = 0
    /\ err = Nil
    /\ ctxDone = FALSE
    /\ backoffTimes = 0
    /\ sleepInterval = 0
    /\ nTransient = 0
    /\ otherSeen = FALSE
    /\ last = NoLast

\* The --uids arguments of the once commands: none, one UID, a list with
\* blanks, a list without a UID, and two that are no list of UIDs.
UidArgs ==
    {<<>>, <<"1">>, <<"2">>, <<"1", ",", " ", "0", "2", ",">>, <<",">>,
     <<"1", ",", "x">>, <<"4", "2", "9", "4", "9", "6", "7", "2", "9", "6">>}

\* if uidsStr := c.String("uids"); uidsStr != "" { targetUIDs, err = parseUIDs(uidsStr) }
TargetUIDs(uidsStr) ==
    IF uidsStr # <<>> THEN parseUIDs(uidsStr) ELSE [ok |-> TRUE, uids |-> {}]

\* A once or a server command over an inbox of up to MaxMessages messages.
Init ==
    /\ memo = Matches
    /\ mode \in {"once", "server"}
    /\ config = RunConfig("")
    /\ parseConfigOK(config)
    /\ dryRun \in BOOLEAN
    /\ failureCap = MaxRunBackoff
    /\ uidsArg \in IF mode = "once" THEN UidArgs ELSE {<<>>}
    /\ TargetUIDs(uidsArg).ok
    /\ targetUIDs = TargetUIDs(uidsArg).uids
    /\ inbox \in UNION {Inboxes(n) : n \in 0..MaxMessages}
    /\ InitCommand

Next ==
    \/ Connect
    \/ CheckPage
    \/ FetchPage
    \/ CheckMessage
    \/ SkipProcessed
    \/ SkipNotTarget
    \/ ProcessMessage
    \/ AfterCycle
    \/ WakeUp
    \/ StopServer
    \/ Cancel
    \/ OnceExit

Spec == Init /\ [][Next]_vars

\* ------------------------------------------------------------------ one message

\* Most rules of a configuration in the study of processMessage.
MaxRules == 2

\* The rules the configurations of this study are made of.
RulePool ==
    {Filter("label", <<>>, Cond("inFrom", A_at_x), <<ActLabelA>>, FALSE),
     Filter("halt", <<>>, Cond("true", <<>>), <<ActLabelB, ActDelete>>, TRUE),
     Filter("approve", <<PrefetchPR>>, Cond("authorIs", "alice"), <<ActReview>>, FALSE),
     Filter("stamp", <<PrefetchPRCaps>>, Cond("true", <<>>),
            <<ActLabelA, ActReviewCaps, ActMoveM>>, TRUE),
     Filter("subject", <<>>, Cond("subject", <<>>), <<ActUnknown>>, FALSE),
     Filter("caps", <<>>, Cond("inFrom", A_at_x),
            <<ActDeleteCaps, ActLabelCaps, ActMoveCaps, ActLabelB>>, FALSE),
     Filter("second", <<>>, Cond("true", <<>>), <<ActLabelB>>, FALSE)}

RuleLists == UNION {[1..n -> RulePool] : n \in 0..MaxRules}

MsgConfigs ==
    {c \in {[Server |-> [SleepInterval |-> "15s"], GitHub |-> gh, Filters |-> fs] :
              gh \in {GitHubConfig(TRUE, <<"alice">>, <<RepoOR>>),
                      GitHubConfig(FALSE, <<>>, <<>>)},
              fs \in RuleLists} :
        parseConfigOK(c)}

MsgPool ==
    {Message(1, {}, <<AddrA>>, "hello", BodyPR7),
     Message(1, {}, <<AddrB>>, "true", BodyEvil),
     Message(1, {FlagSeen}, <<AddrA>>, "true", BodyPR7),
     Message(1, {}, <<AddrB, AddrA>>, "hello", BodyPlain),
     Message(1, {}, <<AddrA>>, "hello", BodyHuge)}

\* runOnce is at a message of the page it fetched, in some cycle of a server:
\* the cache and GitHub's reviews are what earlier messages and other people
\* left.
InitMsg ==
    /\ memo = Matches
    /\ mode = "server"
    /\ config \in MsgConfigs
    /\ dryRun \in BOOLEAN
    /\ failureCap = MaxRunBackoff
    /\ uidsArg = <<>>
    /\ slog = <<>>
    /\ lg = NoLogger
    /\ late = NoLate
    /\ targetUIDs = {}
    /\ \E m \in MsgPool : inbox = <<m>> /\ messages = <<m>>
    /\ reviews \in {{}, {Review(KeyOR7, CurrentUser, "APPROVED")},
                    {Review(KeyOR7, "bob", "APPROVED"),
                     Review(KeyOR7, CurrentUser, "COMMENTED")}}
    /\ githubPullRequestCache \in {EmptyMap, KeyOR7 :> PRAlice}
    /\ processedUIDs = {}
    /\ pc = "msg"
    /\ idx = 1
    /\ pos = 1
    /\ sessions = 1
    /\ err = Nil
    /\ ctxDone = FALSE
    /\ backoffTimes = 0
    /\ sleepInterval = 0
    /\ nTransient = 0
    /\ otherSeen = FALSE
    /\ last = NoLast

NextMsg == ProcessMessage

SpecMsg == InitMsg /\ [][NextMsg]_vars

\* ------------------------------------------------------------------ the server loop

\* A server over an inbox of at most one message, for every interval of the
\* model, with the failure counter free up to MaxBackoff.
InitServer ==
    /\ memo = Matches
    /\ mode = "server"
    /\ config \in {RunConfig(iv) : iv \in {"", "20s", "45s", "90s"}}
    /\ parseConfigOK(config)
    /\ dryRun = FALSE
    /\ failureCap = MaxBackoff
    /\ uidsArg = <<>>
    /\ targetUIDs = {}
    /\ inbox \in Inboxes(0) \cup Inboxes(1)
    /\ InitCommand

NextServer ==
    \/ Connect
    \/ CheckPage
    \/ FetchPage
    \/ CheckMessage
    \/ SkipProcessed
    \/ ProcessMessage
    \/ AfterCycle
    \/ WakeUp
    \/ StopServer
    \/ Cancel

SpecServer == InitServer /\ [][NextServer]_vars

\* ------------------------------------------------------------------ loading

\* The rules of the configurations a command is started with, well-formed or
\* not: a plain rule, a rule whose condition is no expression, a review rule
\* without the prefetch, and a review rule with it.
LoadPool ==
    {Filter("label", <<>>, Cond("true", <<>>), <<ActLabelA>>, FALSE),
     Filter("broken", <<>>, Cond("syntaxError", <<>>), <<ActLabelA>>, FALSE),
     Filter("bare", <<>>, Cond("true", <<>>), <<ActReviewCaps>>, FALSE),
     Filter("approve", <<PrefetchPR>>, Cond("hasPR", <<>>), <<ActReview>>, FALSE)}

LoadConfigs ==
    {[Server |-> [SleepInterval |-> ""], GitHub |-> gh, Filters |-> fs] :
        gh \in {GitHubConfig(TRUE, <<"alice">>, <<RepoOR>>),
                GitHubConfig(TRUE, <<>>, <<RepoOR>>),
                GitHubConfig(TRUE, <<"alice">>, <<>>),
                GitHubConfig(FALSE, <<>>, <<>>)},
        fs \in UNION {[1..n -> LoadPool] : n \in 1..MaxRules}}

\* A command is started with a configuration file that may be malformed.
InitLoad ==
    /\ memo = Matches
    /\ mode \in {"once", "server"}
    /\ config \in LoadConfigs
    /\ dryRun = FALSE
    /\ failureCap = MaxRunBackoff
    /\ uidsArg = <<>>
    /\ slog = <<>>
    /\ lg = NoLogger
    /\ late = NoLate
    /\ targetUIDs = {}
    /\ inbox \in Inboxes(1)
    /\ reviews = {}
    /\ githubPullRequestCache = EmptyMap
    /\ processedUIDs = {}
    /\ pc = "load"
    /\ idx = 0
    /\ messages = <<>>
    /\ pos = 0
    /\ sessions = 0
    /\ err = Nil
    /\ ctxDone = FALSE
    /\ backoffTimes = 0
    /\ sleepInterval = 0
    /\ nTransient = 0
    /\ otherSeen = FALSE
    /\ last = NoLast

NextLoad ==
    \/ LoadConfig
    \/ Connect
    \/ CheckPage
    \/ FetchPage
    \/ CheckMessage
    \/ SkipProcessed
    \/ ProcessMessage
    \/ AfterCycle
    \/ WakeUp
    \/ StopServer
    \/ Cancel
    \/ OnceExit

SpecLoad == InitLoad /\ [][NextLoad]_vars

\* ------------------------------------------------------------------ cancellation

\* A configuration without GitHub integration: a rule that labels every
\* message, then a halting rule that deletes.
PlainConfig ==
    DefaultSleepInterval(
        [Server |-> [SleepInterval |-> ""],
         GitHub |-> GitHubConfig(FALSE, <<>>, <<>>),
         Filters |-> <<Filter("label", <<>>, Cond("true", <<>>), <<ActLabelA>>, FALSE),
                       Filter("trash", <<>>, Cond("inFrom", <<"b", "@", "x">>),
                              <<ActDelete>>, TRUE)>>])

\* A server over an inbox of at most one message that may be cancelled at any
\* point.
InitCancel ==
    /\ memo = Matches
    /\ mode = "server"
    /\ config = PlainConfig
    /\ parseConfigOK(config)
    /\ dryRun = FALSE
    /\ failureCap = MaxRunBackoff
    /\ uidsArg = <<>>
    /\ targetUIDs = {}
    /\ inbox \in Inboxes(0) \cup Inboxes(1)
    /\ InitCommand

\* The steps of the server itself: all but the delivery of the signal.
ServerSteps ==
    \/ Connect
    \/ CheckPage
    \/ FetchPage
    \/ CheckMessage
    \/ SkipProcessed
    \/ ProcessMessage
    \/ AfterCycle
    \/ WakeUp
    \/ StopServer

\* Every call the server makes returns and the server goes on: it takes a
\* step whenever it can. The signal may come at any time, or never.
SpecCancel == InitCancel /\ [][NextServer]_vars /\ WF_vars(ServerSteps)

\* ------------------------------------------------------------------ the logger alone

\* The wrapped logger of a command with Slack integration: the level of the
\* wrapped logger is debug (--debug), error (--quiet) or info, and
\* slack.send_log_level is any level log.ParseLevel accepts.
InitLog ==
    /\ memo = Matches
    /\ mode = "once"
    /\ config = PlainConfig
    /\ dryRun = FALSE
    /\ failureCap = MaxRunBackoff
    /\ uidsArg = <<>>
    /\ targetUIDs = {}
    /\ inbox = <<>>
    /\ slog = <<>>
    /\ \E level \in {"debug", "info", "error"} :
       \E send \in {Levels[i] : i \in 1..Len(Levels)} :
          lg = [NoLogger EXCEPT !.level = level, !.send = send]
    /\ late = NoLate
    /\ reviews = {}
    /\ githubPullRequestCache = EmptyMap
    /\ processedUIDs = {}
    /\ pc = "log"
    /\ idx = 0
    /\ messages = <<>>
    /\ pos = 0
    /\ sessions = 0
    /\ err = Nil
    /\ ctxDone = FALSE
    /\ backoffTimes = 0
    /\ sleepInterval = 0
    /\ nTransient = 0
    /\ otherSeen = FALSE
    /\ last = NoLast

NextLog == Debug \/ Info \/ Warn \/ Error

SpecLog == InitLog /\ [][NextLog]_vars

\* ------------------------------------------------------------------ the scan

\* The inboxes of the scan: up to two messages more than the step of the
\* window, so that a second page exists whatever the first page removes.
MaxScan == PageStep + 2

\* A message the rules label and keep, and one they delete.
ScanArrivals ==
    {Message(0, {}, <<AddrA>>, "hello", BodyPlain),
     Message(0, {}, <<AddrB>>, "hello", BodyPlain)}

ScanInboxes ==
    UNION {{[i \in 1..n |-> [f[i] EXCEPT !.UID = i]] : f \in [1..n -> ScanArrivals]} :
             n \in 0..MaxScan}

\* A once command over such an inbox, with or without --uids.
InitScan ==
    /\ memo = Matches
    /\ mode = "once"
    /\ config = PlainConfig
    /\ parseConfigOK(config)
    /\ dryRun = FALSE
    /\ failureCap = MaxRunBackoff
    /\ uidsArg \in {<<>>, <<"2">>}
    /\ targetUIDs = TargetUIDs(uidsArg).uids
    /\ inbox \in ScanInboxes
    /\ InitCommand

NextScan ==
    \/ Connect
    \/ CheckPage
    \/ FetchPage
    \/ CheckMessage
    \/ SkipProcessed
    \/ SkipNotTarget
    \/ ProcessMessage
    \/ OnceExit

SpecScan == InitScan /\ [][NextScan]_vars

\* ------------------------------------------------------------------ the ledger over cycles

\* The owner of the mailbox marks a message of INBOX as unread while the
\* server runs: the \\Seen flag the next fetch reports is gone.
MarkUnseen ==
    /\ mode = "server"
    /\ pc \notin {"stopped", "load", "fatal", "log"}
    /\ \E i \in 1..Len(inbox) :
         /\ IsSeen(inbox[i])
         /\ inbox' = [inbox EXCEPT ![i].Flags = @ \ {FlagSeen}]
    /\ UNCHANGED <<memo, uidsArg, slog, lg, late,
                   mode, config, dryRun, failureCap, targetUIDs, reviews,
                   githubPullRequestCache, processedUIDs, pc, idx, messages, pos,
                   sessions, err, ctxDone, backoffTimes, sleepInterval,
                   nTransient, otherSeen, last>>

\* A configuration with one rule: mail from b@x is deleted.
SweepConfig ==
    DefaultSleepInterval(
        [Server |-> [SleepInterval |-> ""],
         GitHub |-> GitHubConfig(FALSE, <<>>, <<>>),
         Filters |-> <<Filter("sweep", <<>>, Cond("inFrom", <<"b", "@", "x">>),
                              <<ActDelete>>, TRUE)>>])

\* An unread message no rule matches, an unread one the rule deletes, and a
\* read one the rule would delete.
LedgerArrivals ==
    {Message(0, {}, <<AddrA>>, "hello", BodyPlain),
     Message(0, {}, <<AddrB>>, "hello", BodyPlain),
     Message(0, {FlagSeen}, <<AddrB>>, "hello", BodyPlain)}

LedgerInboxes ==
    UNION {{[i \in 1..n |-> [f[i] EXCEPT !.UID = i]] : f \in [1..n -> LedgerArrivals]} :
             n \in 0..MaxMessages}

\* A server, in a dry run or not, over such an inbox.
InitLedger ==
    /\ memo = Matches
    /\ mode = "server"
    /\ config = SweepConfig
    /\ parseConfigOK(config)
    /\ dryRun \in BOOLEAN
    /\ failureCap = MaxRunBackoff
    /\ uidsArg = <<>>
    /\ targetUIDs = {}
    /\ inbox \in LedgerInboxes
    /\ InitCommand

NextLedger ==
    \/ NextServer
    \/ MarkUnseen

SpecLedger == InitLedger /\ [][NextLedger]_vars

\* ------------------------------------------------------------------ the prefetch namespace

\* Three rules: one that declares the prefetch and never matches, one that
\* declares none and asks for the author of the pull request, and one that
\* declares the prefetch again and asks the same.
BindConfig ==
    DefaultSleepInterval(
        [Server |-> [SleepInterval |-> ""],
         GitHub |-> GitHubConfig(FALSE, <<>>, <<>>),
         Filters |-> <<Filter("fetch", <<PrefetchPR>>, Cond("false", <<>>),
                              <<ActLabelA>>, FALSE),
                       Filter("later", <<>>, Cond("authorIs", "alice"),
                              <<ActLabelB>>, FALSE),
                       Filter("again", <<PrefetchPR>>, Cond("authorIs", "alice"),
                              <<ActLabelA>>, FALSE)>>])

\* A server with these rules over notifications of a pull request and other
\* mail.
InitBind ==
    /\ memo = Matches
    /\ mode = "server"
    /\ config = BindConfig
    /\ parseConfigOK(config)
    /\ dryRun \in BOOLEAN
    /\ failureCap = MaxRunBackoff
    /\ uidsArg = <<>>
    /\ targetUIDs = {}
    /\ inbox \in UNION {{[i \in 1..n |-> Message(i, {}, <<AddrA>>, "hello", b[i])] :
                            b \in [1..n -> {BodyPR7, BodyPlain}]} : n \in 0..MaxMessages}
    /\ InitCommand

SpecBind == InitBind /\ [][NextServer]_vars

\* ------------------------------------------------------------------ properties

\* The last step of runOnce was a processMessage call.
Processed == last.step = "process"

\* The indexes of the calls of a call log that went to op.
CallsTo(calls, op) == {i \in 1..Len(calls) : calls[i].op = op}

\* The concatenation of the action lists of the rules an evaluation log
\* records as matched, in the order of the log.
RECURSIVE MatchedActions(_, _)
MatchedActions(filters, evals) ==
    IF evals = <<>> THEN <<>>
    ELSE (IF Head(evals).matched THEN filters[Head(evals).rule].Actions ELSE <<>>)
         \o MatchedActions(filters, Tail(evals))

\* The value of a condition that does not read the prefetch namespace.
MatchesMessage(f, msg) ==
    IsMatch(exprRun(f.CompiledCondition,
                    [message |-> MessageEnv(msg), prefetch |-> EmptyMap]).val)

\* C1: for an unseen message the rules are evaluated in declaration order from
\* the first one, the evaluation stops exactly at the first matching rule that
\* halts on match (or after the last rule), and the pending actions are the
\* concatenation, in that order, of the action lists of the rules that matched.
C1_ActionsAreMatchesUpToHalt ==
    (Processed /\ ~IsSeen(last.msg)) =>
        LET evals == last.res.evals
            fs == config.Filters
            n == Len(evals)
        IN /\ n <= Len(fs)
           /\ \A i \in 1..n : evals[i].rule = i
           /\ \A i \in 1..n :
                fs[i].CompiledCondition.op \in {"true", "false", "inFrom", "subject"}
                    => evals[i].matched = MatchesMessage(fs[i], last.msg)
           /\ \A i \in 1..n : (evals[i].matched /\ fs[i].HaltOnMatch) => i = n
           /\ n < Len(fs) => (n > 0 /\ evals[n].matched /\ fs[n].HaltOnMatch)
           /\ last.res.actions = MatchedActions(fs, evals)

\* A non-halting rule matched, then a halting rule matched, and a rule that
\* would have matched too comes after it.
C1_Witness ==
    /\ Processed /\ ~IsSeen(last.msg)
    /\ Len(config.Filters) = 2
    /\ Len(last.res.evals) = 1
    /\ config.Filters[1].HaltOnMatch
    /\ MatchesMessage(config.Filters[2], last.msg)
    /\ Len(config.Filters[2].Actions) > 0
    /\ last.res.actions = config.Filters[1].Actions

\* C2: a message that carries the seen flag yields no pending action: no rule
\* is evaluated, no prefetch runs, no call goes to the mail store or to GitHub,
\* and the cache, the reviews and the inbox stay as they were.
C2_SeenMessageIsUntouched ==
    (Processed /\ FlagSeen \in last.msg.Flags) =>
        /\ last.res.actions = <<>>
        /\ last.res.evals = <<>>
        /\ last.res.calls = <<>>
        /\ last.res.prefetchData = EmptyMap
        /\ ~last.res.moved
        /\ last.res.cache = last.cache0
        /\ last.res.reviews = last.reviews0
        /\ \E i \in 1..Len(inbox) : inbox[i] = last.msg

\* A seen message met a rule with a prefetch and a condition that is true.
C2_Witness ==
    /\ Processed
    /\ FlagSeen \in last.msg.Flags
    /\ ~dryRun
    /\ \E i \in 1..Len(config.Filters) :
         /\ config.Filters[i].CompiledCondition.op = "true"
         /\ Len(config.Filters[i].Prefetches) > 0
    /\ memo.githubPullRequestURLRegex[last.msg.Body] # <<>>

\* C3: when runOnce stands at a message whose UID is in the ledger, the step
\* it takes is not a processMessage call and leaves the ledger, the inbox, the
\* prefetch cache and GitHub's reviews unchanged.
C3_LedgerEntryIsNoOp ==
    [][(pc = "msg" /\ messages[pos].UID \in processedUIDs) =>
          /\ UNCHANGED <<processedUIDs, inbox, githubPullRequestCache, reviews>>
          /\ last' = last \/ last'.step \in {"skipProcessed", "none"}]_vars

\* In a later cycle of a server the message of the ledger is skipped.
C3_Witness ==
    /\ mode = "server"
    /\ last.step = "skipProcessed"
    /\ last.msg.UID \in processedUIDs
    /\ ~IsSeen(last.msg)
    /\ \E i \in 1..Len(inbox) : inbox[i] = last.msg

\* C4 as stated: one message makes at most one PullRequests.Get call, whatever
\* the call answers.
C4_AtMostOneFetch ==
    Processed => Cardinality(CallsTo(last.res.calls, "PullRequests.Get")) <= 1

\* C4: one message makes at most one PullRequests.Get call that succeeds, and
\* no call after it; a call that follows another one follows a failed one. A
\* key the cache holds is not fetched at all.
C4_AtMostOneSuccessfulFetch ==
    Processed =>
        LET calls == last.res.calls
            gets == CallsTo(calls, "PullRequests.Get")
        IN /\ \A i, j \in gets : i < j => ~calls[i].ok
           /\ \A i \in gets : calls[i].arg \notin DOMAIN last.cache0

\* Two rules declare the prefetch; the fetch of the first failed and the second
\* rule fetched again, with success.
C4_Witness ==
    /\ Processed
    /\ LET calls == last.res.calls
           gets == CallsTo(calls, "PullRequests.Get")
       IN /\ Cardinality(gets) = 2
          /\ \E i, j \in gets : i < j /\ ~calls[i].ok /\ calls[j].ok
    /\ prefetchGitHubPullRequestKey \in DOMAIN last.res.prefetchData

\* C5: a key the cache holds is never fetched again and its entry never
\* changes; a successful fetch puts its key in the cache; a message that refers
\* to a cached key is given the cached data.
C5_CachedKeyNeverRefetched ==
    Processed =>
        LET calls == last.res.calls
            gets == CallsTo(calls, "PullRequests.Get")
            p == parseGitHubNotification(last.msg.Body)
            key == CacheKey(p.owner, p.repo, p.number)
            pd == last.res.prefetchData
        IN /\ \A i \in gets : calls[i].arg \notin DOMAIN last.cache0
           /\ \A i \in gets : calls[i].ok => calls[i].arg \in DOMAIN githubPullRequestCache
           /\ \A k \in DOMAIN last.cache0 :
                /\ k \in DOMAIN githubPullRequestCache
                /\ githubPullRequestCache[k] = last.cache0[k]
           /\ (prefetchGitHubPullRequestKey \in DOMAIN pd /\ p.ok /\ key \in DOMAIN last.cache0)
                => pd[prefetchGitHubPullRequestKey] = last.cache0[key]

\* A second message that refers to the pull request another message fetched
\* is served from the cache, without a call.
C5_Witness ==
    /\ Processed
    /\ KeyOR7 \in DOMAIN last.cache0
    /\ last.msg.UID = 2
    /\ prefetchGitHubPullRequestKey \in DOMAIN last.res.prefetchData
    /\ last.res.prefetchData[prefetchGitHubPullRequestKey] = last.cache0[KeyOR7]
    /\ CallsTo(last.res.calls, "PullRequests.Get") = {}

\* The pull request bound for the message of the last step, and its
\* repository as the allow-list names it.
BoundPR == last.res.prefetchData[prefetchGitHubPullRequestKey]
BoundRepo == BoundPR.owner \o <<"/">> \o BoundPR.repo
BoundKey == CacheKey(BoundPR.owner, BoundPR.repo, BoundPR.number)
HasBoundPR == prefetchGitHubPullRequestKey \in DOMAIN last.res.prefetchData

RepoAllowed == Contains(config.GitHub.Approval.AllowedRepositories, BoundRepo)
AuthorAllowed == Contains(config.GitHub.Approval.AllowedUsernames, BoundPR.author)

HasLog(msg) == \E i \in 1..Len(last.res.logs) : last.res.logs[i].msg = msg

ReviewCalls ==
    CallsTo(last.res.calls, "PullRequests.ListReviews")
        \cup CallsTo(last.res.calls, "Users.Get")
        \cup CallsTo(last.res.calls, "PullRequests.CreateReview")

\* C6: PullRequests.CreateReview is called only if approval is enabled, the
\* repository of the pull request is in allowed_repositories, its author is in
\* allowed_usernames, and GitHub held no APPROVED review of the current user
\* for it; a message submits at most one approval, for the pull request bound
\* for it, and not in a dry run.
C6_ApprovalOnlyWhenAllChecksPass ==
    (Processed /\ CallsTo(last.res.calls, "PullRequests.CreateReview") # {}) =>
        /\ ~dryRun
        /\ config.GitHub.Approval.Enabled
        /\ HasBoundPR
        /\ RepoAllowed
        /\ AuthorAllowed
        /\ ~\E r \in last.reviews0 :
              r.pr = BoundKey /\ r.user = CurrentUser /\ r.state = "APPROVED"
        /\ Cardinality(CallsTo(last.res.calls, "PullRequests.CreateReview")) = 1
        /\ \A i \in CallsTo(last.res.calls, "PullRequests.CreateReview") :
              last.res.calls[i].arg = BoundKey

\* An approval was submitted although another user had approved and the
\* current user had commented.
C6_Witness ==
    /\ Processed
    /\ \E i \in CallsTo(last.res.calls, "PullRequests.CreateReview") : last.res.calls[i].ok
    /\ \E r \in last.reviews0 : r.user # CurrentUser /\ r.state = "APPROVED"
    /\ Review(BoundKey, CurrentUser, "APPROVED") \in reviews

\* The actions of a list that go to the mail store.
RECURSIVE MailActions(_)
MailActions(actions) ==
    IF actions = <<>> THEN 0
    ELSE (IF ActionKind(Head(actions), config.GitHub.Approval.Enabled)
                \in {"delete", "label", "move"} THEN 1 ELSE 0)
         + MailActions(Tail(actions))

MailCalls == CallsTo(last.res.calls, "Move") \cup CallsTo(last.res.calls, "Copy")

\* C7: the repository is checked before the author (a pull request that fails
\* the repository check is logged as such whoever its author is, and the
\* author check is logged only for an allowed repository). When one of the two
\* checks fails no review call goes to GitHub and the action is no error: an
\* error of the message can only be that of a failed mail-store call, and
\* without one every mail-store action of the message is carried out and the
\* UID enters the ledger.
C7_GateOrderAndSilentSkip ==
    (Processed /\ HasBoundPR) =>
        /\ HasLog("Repository not in allowed list") => ~RepoAllowed
        /\ HasLog("Author not in allowed list") => (RepoAllowed /\ ~AuthorAllowed)
        /\ (~RepoAllowed \/ ~AuthorAllowed) =>
              /\ ReviewCalls = {}
              /\ last.res.err # Nil =>
                    /\ Len(last.res.calls) > 0
                    /\ last.res.calls[Len(last.res.calls)].op \in {"Move", "Copy"}
                    /\ ~last.res.calls[Len(last.res.calls)].ok
              /\ (last.res.err = Nil /\ ~dryRun) =>
                    /\ Cardinality(MailCalls) = MailActions(last.res.actions)
                    /\ last.msg.UID \in processedUIDs

\* The repository check failed for a pull request whose author is not allowed
\* either; the move that follows the approval action was carried out and the
\* UID is in the ledger.
C7_Witness ==
    /\ Processed /\ HasBoundPR
    /\ ~RepoAllowed /\ ~AuthorAllowed
    /\ HasLog("Repository not in allowed list")
    /\ last.res.err = Nil
    /\ last.res.moved
    /\ last.msg.UID \in processedUIDs
    /\ \E k \in 1..Len(last.res.actions) :
         /\ ActionKind(last.res.actions[k], TRUE) = "review"
         /\ k < Len(last.res.actions)

CycleFailed == err # Nil /\ ~IsCanceled(err)

\* C9 as stated: below the cap, the sleep after a failed cycle is longer than
\* the sleep after a successful one, transient or not.
C9_EveryFailureBacksOff ==
    (pc = "sleep" /\ CycleFailed /\ sleepInterval < Minute) =>
        sleepInterval > configuredSleepInternal

\* C9: a cycle that fails with an error that is not transient leaves the
\* failure counter as it was, and the sleep is min(base * (counter + 1), one
\* minute) for that counter; only a transient failure raises the counter.
C9_OnlyTransientFailureBacksOff ==
    [][(pc = "ret" /\ pc' = "sleep" /\ CycleFailed) =>
          /\ backoffTimes' = IF isTransientError(err) THEN backoffTimes + 1
                             ELSE backoffTimes
          /\ sleepInterval' = SetMin({configuredSleepInternal * (backoffTimes' + 1),
                                      Minute})]_vars

\* The first cycle failed with an error that is not transient and the server
\* sleeps the configured interval, as after a success.
C9_Witness ==
    /\ pc = "sleep"
    /\ CycleFailed
    /\ ~isTransientError(err)
    /\ backoffTimes = 0
    /\ sleepInterval = configuredSleepInternal
    /\ sleepInterval < Minute

\* C10: after a successful cycle the server sleeps the configured interval.
C10_SleepAfterSuccessIsConfigured ==
    (pc = "sleep" /\ err = Nil) => sleepInterval = configuredSleepInternal

\* The mail-store call an action string asks for, as the actions table
\* describes it; none for a string of another form.
MailCallOf(action) ==
    IF action = <<"d", "e", "l", "e", "t", "e">>
    THEN <<[op |-> "Move", arg |-> <<"[","G","m","a","i","l","]","/","T","r","a","s","h">>]>>
    ELSE IF HasPrefix(action, <<"l", "a", "b", "e", "l", " ">>)
    THEN LET m == labelRegexp(action)
         IN IF Len(m) < 2 THEN <<>> ELSE <<[op |-> "Copy", arg |-> m[2]]>>
    ELSE IF HasPrefix(action, <<"m", "o", "v", "e", " ", "t", "o", " ">>)
    THEN LET m == moveToRegexp(action)
         IN IF Len(m) < 2 THEN <<>> ELSE <<[op |-> "Move", arg |-> m[2]]>>
    ELSE <<>>

RECURSIVE ExpectedMail(_)
ExpectedMail(actions) ==
    IF actions = <<>> THEN <<>>
    ELSE MailCallOf(Head(actions)) \o ExpectedMail(Tail(actions))

\* The mail-store calls of the last step, in order, as operation and mailbox.
IsMailCall(c) == c.op \in {"Move", "Copy"}
MailCallSeq ==
    LET sel == SelectSeq(last.res.calls, IsMailCall)
    IN [i \in 1..Len(sel) |-> [op |-> sel[i].op, arg |-> sel[i].arg]]

IsPrefixOf(a, b) == Len(a) <= Len(b) /\ SubSeq(b, 1, Len(a)) = a

LastCall == last.res.calls[Len(last.res.calls)]

\* C11: a call of an action that fails is the last call the message makes, and
\* processMessage returns an error that runOnce returns wrapped with the UID;
\* the mail-store calls made are a prefix of the calls the pending actions ask
\* for, in their order.
C11_FailedActionEndsTheMessage ==
    Processed =>
        /\ \A i \in 1..Len(last.res.calls) :
              (last.res.calls[i].op # "PullRequests.Get" /\ ~last.res.calls[i].ok)
                  => (i = Len(last.res.calls) /\ last.res.err # Nil)
        /\ IsPrefixOf(MailCallSeq, ExpectedMail(last.res.actions))
        /\ last.res.err # Nil => (pc = "ret" /\ err = Wrap(last.res.err, "uid"))

\* A mail-store call failed and actions that ask for further calls were left.
C11_Witness ==
    /\ Processed
    /\ last.res.err # Nil
    /\ Len(last.res.calls) > 0
    /\ IsMailCall(LastCall) /\ ~LastCall.ok
    /\ Len(MailCallSeq) + 1 < Len(ExpectedMail(last.res.actions))
    /\ pc = "ret"

\* C12: after processMessage the UID of the message is in the ledger exactly
\* when no error was returned; on an error runOnce has returned it, wrapped
\* with the UID, without going on to another message.
C12_LedgerExactlyOnSuccess ==
    Processed =>
        /\ last.res.err = Nil <=> last.msg.UID \in processedUIDs
        /\ last.res.err # Nil =>
              /\ pc = "ret"
              /\ err = Wrap(last.res.err, "uid")
              /\ messages = <<>> /\ pos = 0
        /\ last.res.err = Nil => pc \in {"msgs", "page"}

\* The first of two messages failed: neither is in the ledger and the cycle
\* has returned.
C12_Witness ==
    /\ Processed
    /\ last.msg.UID = 1
    /\ last.res.err # Nil
    /\ Len(inbox) = 2
    /\ processedUIDs = {}
    /\ pc = "ret"

\* No call to the mail store or for a review failed during the last step.
NoCallFailed ==
    \A i \in 1..Len(last.res.calls) :
        last.res.calls[i].op = "PullRequests.Get" \/ last.res.calls[i].ok

\* C13: a message for which no pull request data is bound (the fetch failed,
\* or the body names no pull request) is processed without error as long as
\* no mail-store call fails.
C13_AbsentPrefetchDataIsNoError ==
    (Processed /\ ~HasBoundPR /\ NoCallFailed) => last.res.err = Nil

\* The conditions of the model that read the message only.
ReadsMessageOnly(f) ==
    f.CompiledCondition.op \in {"true", "false", "nil", "inFrom", "subject"}

\* What the condition of a rule evaluates to on the message of the last step,
\* with no prefetch data bound.
RunUnbound(f) ==
    exprRun(f.CompiledCondition,
            [message |-> MessageEnv(last.msg), prefetch |-> EmptyMap])

\* C14: a rule whose condition fails at run time (it reads the pull request
\* namespace while none is bound) does not match and adds no action, the
\* failure is logged, the next rule is evaluated, and an error of the message
\* can only come from the dispatch of its actions.
C14_ConditionFailureIsNonMatch ==
    (Processed /\ ~IsSeen(last.msg)) =>
        LET evals == last.res.evals
            fs == config.Filters
        IN /\ ~HasBoundPR =>
                \A i \in 1..Len(evals) :
                    RunUnbound(fs[i]).err =>
                        /\ ~evals[i].matched
                        /\ HasLog("Failed to run expression")
                        /\ i < Len(fs) => Len(evals) > i
           /\ last.res.actions = MatchedActions(fs, evals)
           /\ last.res.err # Nil => (Len(last.res.actions) > 0 /\ ~dryRun)

\* The condition of the first rule failed, the second rule matched, its action
\* was carried out and the UID is in the ledger.
C14_Witness ==
    /\ Processed /\ ~IsSeen(last.msg) /\ ~HasBoundPR /\ ~dryRun
    /\ Len(last.res.evals) = 2
    /\ RunUnbound(config.Filters[1]).err
    /\ ~last.res.evals[1].matched
    /\ last.res.evals[2].matched
    /\ last.res.actions = config.Filters[2].Actions
    /\ Len(MailCallSeq) > 0
    /\ last.res.err = Nil
    /\ last.msg.UID \in processedUIDs

\* C15 as stated: a rule matches exactly when its condition evaluates to the
\* boolean true.
C15_OnlyBooleanTrueMatches ==
    (Processed /\ ~IsSeen(last.msg)) =>
        \A i \in 1..Len(last.res.evals) :
            ReadsMessageOnly(config.Filters[i]) =>
                (last.res.evals[i].matched
                    <=> RunUnbound(config.Filters[i]).val = VBool(TRUE))

\* C15: a rule matches exactly when its condition evaluates to the boolean
\* true or to the string "true"; an evaluation that fails does not match.
C15_TrueOrItsTextMatches ==
    (Processed /\ ~IsSeen(last.msg)) =>
        \A i \in 1..Len(last.res.evals) :
            /\ ReadsMessageOnly(config.Filters[i]) =>
                  (last.res.evals[i].matched
                      <=> RunUnbound(config.Filters[i]).val
                              \in {VBool(TRUE), VString("true")})
            /\ (~HasBoundPR /\ RunUnbound(config.Filters[i]).err)
                  => ~last.res.evals[i].matched

\* A rule whose condition is the subject matched a message whose subject is the
\* text true, and its action is pending.
C15_Witness ==
    /\ Processed /\ ~IsSeen(last.msg)
    /\ last.msg.Envelope.Subject = "true"
    /\ \E i \in 1..Len(last.res.evals) :
         /\ config.Filters[i].CompiledCondition.op = "subject"
         /\ last.res.evals[i].matched
         /\ IsPrefixOf(config.Filters[i].Actions, last.res.actions)

\* An action string of none of the forms the dispatcher knows.
IsUnknownForm(action) ==
    /\ action # <<"d", "e", "l", "e", "t", "e">>
    /\ ~HasPrefix(action, <<"l", "a", "b", "e", "l", " ">>)
    /\ ~HasPrefix(action, <<"m", "o", "v", "e", " ", "t", "o", " ">>)
    /\ ~(config.GitHub.Approval.Enabled /\ githubReviewRegexp(action))

HasUnknownAction ==
    \E k \in 1..Len(last.res.actions) : IsUnknownForm(last.res.actions[k])

\* The error of a review action that finds no pull request data.
NoPrefetchDataError ==
    <<"process GitHub review action", "invalid GitHub pull request prefetch data type">>

\* C16: an action string of no known form is logged as unknown and makes no
\* call: the mail-store calls of a message that ends without error are
\* exactly those its other actions ask for, in order, also for the actions
\* after the unknown one; and an unknown action is never the cause of an error
\* (without a failed call an error is that of a review without data).
C16_UnknownActionIsSkipped ==
    (Processed /\ ~dryRun /\ Len(last.res.actions) > 0) =>
        /\ HasLog("Unknown action") => HasUnknownAction
        /\ last.res.err = Nil =>
              /\ HasUnknownAction => HasLog("Unknown action")
              /\ MailCallSeq = ExpectedMail(last.res.actions)
              /\ last.msg.UID \in processedUIDs
        /\ (last.res.err # Nil /\ NoCallFailed) => last.res.err = NoPrefetchDataError

\* The unknown action came first and the two actions after it were carried out.
C16_Witness ==
    /\ Processed /\ ~dryRun
    /\ Len(last.res.actions) = 3
    /\ last.res.actions[1] = <<"a", "r", "c", "h", "i", "v", "e">>
    /\ HasLog("Unknown action")
    /\ last.res.err = Nil
    /\ Len(MailCallSeq) = 2
    /\ last.res.moved

\* An action string with the keyword of its form in lower case.
KeywordFolded(action) ==
    LET del == <<"d", "e", "l", "e", "t", "e">>
        lab == <<"l", "a", "b", "e", "l", " ">>
        mov == <<"m", "o", "v", "e", " ", "t", "o", " ">>
    IN IF Len(action) = Len(del) /\ FoldLitAt(action, 1, del) THEN del
       ELSE IF FoldLitAt(action, 1, lab)
       THEN lab \o SubSeq(action, Len(lab) + 1, Len(action))
       ELSE IF FoldLitAt(action, 1, mov)
       THEN mov \o SubSeq(action, Len(mov) + 1, Len(action))
       ELSE action

\* The actions of the last step that differ from a delete, label or move
\* action in the letter case of the keyword only.
CaseVariants ==
    {k \in 1..Len(last.res.actions) :
        /\ KeywordFolded(last.res.actions[k]) # last.res.actions[k]
        /\ MailCallOf(KeywordFolded(last.res.actions[k])) # <<>>}

\* A review of the bound pull request was processed: it went to GitHub or the
\* gate logged why not.
ReviewProcessed ==
    \/ ReviewCalls # {}
    \/ HasLog("Repository not in allowed list")
    \/ HasLog("Author not in allowed list")

OneAction(action) ==
    [config EXCEPT !.Filters =
        <<Filter("one", <<>>, Cond("true", <<>>), <<action>>, FALSE)>>]

\* processMessage of the message of the last step, as that step found the
\* world, under OneAction(action); the mail store fails its failAt-th call
\* with cause.
Alone(action, failAt, cause) ==
    processMessage(FALSE, OneAction(action), last.msg, last.cache0, last.reviews0,
                   [gets |-> <<>>, failAt |-> failAt, gh |-> "ok", cause |-> cause])

\* C18: for every message, whether the mail store accepts the call or fails
\* it, delete and move to "[Gmail]/Trash" make the same calls (one Move of the
\* UID to [Gmail]/Trash), take the message out of the inbox alike, and return
\* an error alike: none, or one that wraps the same cause and is classified
\* the same.
C18_DeleteIsMoveToTrash ==
    (Processed /\ ~IsSeen(last.msg)) =>
        \A failAt \in 0..1, cause \in MsgCauses :
            LET d == Alone(<<"d", "e", "l", "e", "t", "e">>, failAt, cause)
                m == Alone(<<"m", "o", "v", "e", " ", "t", "o", " ", "\"",
                             "[","G","m","a","i","l","]","/","T","r","a","s","h",
                             "\"">>, failAt, cause)
            IN /\ d.calls = m.calls
               /\ Len(d.calls) = 1
               /\ d.calls[1] = Call("Move", {last.msg.UID},
                      <<"[","G","m","a","i","l","]","/","T","r","a","s","h">>,
                      failAt # 1)
               /\ d.moved = m.moved
               /\ (d.err = Nil) = (m.err = Nil)
               /\ d.err # Nil => (/\ Tail(d.err) = cause
                                  /\ Tail(m.err) = cause
                                  /\ isTransientError(d.err) = isTransientError(m.err))

\* A delete was carried out: the message went to [Gmail]/Trash and is no
\* longer in the inbox.
C18_Witness ==
    /\ Processed /\ ~dryRun
    /\ \E k \in 1..Len(last.res.actions) :
         last.res.actions[k] = <<"d", "e", "l", "e", "t", "e">>
    /\ Len(last.res.calls) > 0
    /\ LastCall = Call("Move", {last.msg.UID},
                       <<"[","G","m","a","i","l","]","/","T","r","a","s","h">>, TRUE)
    /\ last.res.err = Nil
    /\ inbox = <<>>

\* The errors of a configuration: a condition that is no expression, a review
\* action in a rule while approval is disabled, a review action in a rule
\* that does not declare the pull request prefetch, an empty allow-list while
\* approval is enabled.
BadRule(c, f) ==
    \/ f.CompiledCondition.op = "syntaxError"
    \/ /\ \E k \in 1..Len(f.Actions) : githubReviewRegexp(f.Actions[k])
       /\ \/ ~c.GitHub.Approval.Enabled
          \/ ~\E k \in 1..Len(f.Prefetches) : githubPullRequestRegexp(f.Prefetches[k])

BadConfig(c) ==
    \/ \E i \in 1..Len(c.Filters) : BadRule(c, c.Filters[i])
    \/ /\ c.GitHub.Approval.Enabled
       /\ \/ c.GitHub.Approval.AllowedUsernames = <<>>
          \/ c.GitHub.Approval.AllowedRepositories = <<>>

\* C19: with a configuration that has one of these errors the command never
\* gets past loading: no session is opened, no cycle runs, no message is
\* processed and nothing is recorded.
C19_BadConfigNeverRuns ==
    BadConfig(config) =>
        /\ pc \in {"load", "fatal"}
        /\ sessions = 0
        /\ last = NoLast
        /\ processedUIDs = {}
        /\ err = Nil
        /\ backoffTimes = 0 /\ sleepInterval = 0
        /\ ~ctxDone

\* Loading failed for a configuration whose only error is a review action in a
\* rule that does not declare the prefetch.
C19_Witness ==
    /\ pc = "fatal"
    /\ config.GitHub.Approval.Enabled
    /\ config.GitHub.Approval.AllowedUsernames # <<>>
    /\ config.GitHub.Approval.AllowedRepositories # <<>>
    /\ \A i \in 1..Len(config.Filters) : config.Filters[i].CompiledCondition.op # "syntaxError"
    /\ \E i \in 1..Len(config.Filters) : BadRule(config, config.Filters[i])

\* The operations of a call log that change the mail store or GitHub.
IsMutatingCall(c) == c.op \in {"Move", "Copy", "PullRequests.CreateReview"}

\* C20: in a dry run no step of a once or a server command moves or copies a
\* message or submits an approval: a processMessage call issues no Move, no
\* Copy and no PullRequests.CreateReview and returns no error, whatever rules
\* matched, and every step leaves INBOX and the reviews on GitHub as they were.
C20_DryRunChangesNothing ==
    [][dryRun =>
          /\ inbox' = inbox
          /\ reviews' = reviews
          /\ last'.step = "process" =>
                /\ SelectSeq(last'.res.calls, IsMutatingCall) = <<>>
                /\ ~last'.res.moved
                /\ last'.res.err = Nil]_vars

\* A dry run of the server, in the cycle after one that failed, at a message
\* that matched the approving rule: the review and the label are pending, the pull
\* request was looked up, and the message is recorded and still in INBOX with
\* no review submitted.
C20_Witness ==
    /\ dryRun
    /\ mode = "server"
    /\ backoffTimes >= 1
    /\ Processed
    /\ last.res.actions = <<ActReview, ActLabelA>>
    /\ Len(last.res.calls) = 1
    /\ last.res.calls[1].op = "PullRequests.Get"
    /\ last.msg.UID \in processedUIDs
    /\ \E i \in 1..Len(inbox) : inbox[i] = last.msg
    /\ reviews = {}

\* The server loop logged a failed cycle after the last cycle.
LoggedFailure ==
    \E i \in 1..Len(slog) : slog[i].msg = "Failed to process messages"

\* C21: once the context is cancelled the server loop exits (runServer
\* returns nil), whether the signal came during a cycle or during the sleep;
\* a cycle that returned the cancellation resets the failure counter and is
\* not logged as a failed cycle, and the loop exits only when cancelled.
C21_CancelEndsTheServerCleanly ==
    /\ ctxDone ~> (pc = "stopped")
    /\ [](pc = "stopped" => ctxDone)
    /\ [][(pc = "ret" /\ err = Canceled /\ pc' = "sleep") =>
              (backoffTimes' = 0 /\ ~LoggedFailure')]_vars

\* The signal came during a cycle: the cycle returned the cancellation, the
\* counter is zero, nothing was logged as a failure and the loop has exited.
C21_Witness ==
    /\ pc = "stopped"
    /\ mode = "server"
    /\ err = Canceled
    /\ backoffTimes = 0
    /\ slog = <<>>
    /\ sessions = 0

\* The original statement of C22: once the context is cancelled the cycle
\* fetches no page and what it processes is of a page fetched before.
C22_NoFetchAfterSignal == late.fetches = 0

\* C22: once the context is cancelled runOnce passes no further cancellation
\* check: the next head of the page loop or of the message loop returns the
\* cancellation and changes nothing in the mail store, on GitHub or in the
\* ledger. What runOnce still does after the signal is the one step whose
\* check had passed before it: the fetch of one page or the processing of
\* one message, never both, so no message of a page fetched after the signal
\* is processed.
C22_SignalStopsAtNextCheck ==
    /\ [](late.fetches + late.processed <= 1)
    /\ [][(ctxDone /\ pc \in {"page", "msgs"} /\ pc' # pc) =>
              /\ pc' = "ret"
              /\ err' = Canceled
              /\ UNCHANGED <<inbox, reviews, processedUIDs, githubPullRequestCache>>]_vars

\* The signal came between the check at the head of the page loop and the
\* fetch: the page was fetched, none of its messages was processed, and the
\* cycle returned the cancellation at the first message.
C22_Witness ==
    /\ ctxDone
    /\ late = [fetches |-> 1, processed |-> 0]
    /\ pc = "ret"
    /\ err = Canceled
    /\ Len(inbox) > 0
    /\ processedUIDs = {}

\* The UIDs a --uids argument lists.
Listed(uidsStr) == parseUIDs(uidsStr).uids

\* C23: in a once command with a non-empty --uids argument that parses, a
\* message passed to processMessage has its UID in the list of the argument.
C23_OnlyListedAreProcessed ==
    (mode = "once" /\ uidsArg # <<>> /\ parseUIDs(uidsArg).ok /\ Processed)
        => last.msg.UID \in Listed(uidsArg)

\* C24: after a cycle that failed with a transient error the server loop
\* logs "Failed to process messages" once, at error level when the failure
\* counter (as raised by this failure) is a multiple of 5 and at warn level
\* otherwise; the counter is backoffTimes, which is zero after a cycle that
\* did not fail, and such a cycle logs no failure.
C24_EveryFifthFailureIsAnError ==
    pc = "sleep" =>
        /\ (err # Nil /\ err # Canceled /\ isTransientError(err)) =>
              /\ backoffTimes >= 1
              /\ Len(slog) >= 1
              /\ slog[1] = LogEntry(IF backoffTimes % 5 = 0 THEN "error" ELSE "warn",
                                    "Failed to process messages")
              /\ \A i \in 2..Len(slog) : slog[i].msg # "Failed to process messages"
        /\ (err = Nil \/ err = Canceled) => (backoffTimes = 0 /\ ~LoggedFailure)

\* The fifth transient failure in a row was logged at error level, before
\* the warning about the back-off.
C24_Witness ==
    /\ pc = "sleep"
    /\ isTransientError(err)
    /\ backoffTimes = 5
    /\ nTransient = 5
    /\ ~otherSeen
    /\ slog = <<LogEntry("error", "Failed to process messages"),
                LogEntry("warn", "Backing off")>>

\* The positions in a pending-action sequence of the actions that ask for a
\* mail-store call (delete, label "X", move to "X"), in ascending order.
RECURSIVE Ascending(_)
Ascending(S) ==
    IF S = {} THEN <<>> ELSE <<SetMin(S)>> \o Ascending(S \ {SetMin(S)})
MailPositions(actions) ==
    Ascending({k \in 1..Len(actions) : MailCallOf(actions[k]) # <<>>})

\* C25: the i-th mail-store call of a message is the call of the i-th
\* delete, label or move action of its pending sequence: the calls keep the
\* order of the sequence and every such action that is executed makes
\* exactly one call. All of them are executed unless a call failed or a
\* review action returned an error.
C25_CallsFollowThePendingOrder ==
    (Processed /\ ~dryRun) =>
        LET at == MailPositions(last.res.actions)
        IN /\ Len(MailCallSeq) <= Len(at)
           /\ \A i \in 1..Len(MailCallSeq) :
                 <<MailCallSeq[i]>> = MailCallOf(last.res.actions[at[i]])
           /\ last.res.err = Nil => Len(MailCallSeq) = Len(at)

\* Two rules that do not halt matched and contributed label "A" and
\* label "B": the copy to A was made before the copy to B.
C25_Witness ==
    /\ Processed /\ ~dryRun
    /\ Len(config.Filters) = 2
    /\ ~config.Filters[1].HaltOnMatch /\ ~config.Filters[2].HaltOnMatch
    /\ config.Filters[1].Actions = <<ActLabelA>>
    /\ config.Filters[2].Actions = <<ActLabelB>>
    /\ last.res.actions = <<ActLabelA, ActLabelB>>
    /\ MailCallSeq = <<[op |-> "Copy", arg |-> <<"A">>], [op |-> "Copy", arg |-> <<"B">>]>>
    /\ last.res.err = Nil

\* C26: every client.Move and client.Copy of a processMessage call names a
\* set of exactly one UID, the UID of the message the call is for.
C26_CallsNameTheCurrentMessageOnly ==
    Processed =>
        \A i \in 1..Len(last.res.calls) :
            IsMailCall(last.res.calls[i]) =>
                /\ Cardinality(last.res.calls[i].uid) = 1
                /\ last.res.calls[i].uid = {last.msg.UID}

\* The second message of an inbox of two was labelled and moved: both calls
\* name UID 2 alone and the first message is still in INBOX.
C26_Witness ==
    /\ Processed
    /\ last.msg.UID = 2
    /\ Len(MailCallSeq) >= 1
    /\ last.res.moved
    /\ Len(inbox) = 1 /\ inbox[1].UID = 1

\* The rule of the configuration that declares the pull request prefetch and
\* the approval action was evaluated for the message of the last step and
\* matched, with the approval feature on.
ApprovalRuleMatched ==
    /\ config.GitHub.Approval.Enabled
    /\ \E i \in 1..Len(last.res.evals) :
         /\ last.res.evals[i].matched
         /\ HasPullRequestPrefetch(config.Filters[last.res.evals[i].rule])
         /\ HasReviewAction(config.Filters[last.res.evals[i].rule])

\* C27: a message whose body holds no pull request reference that parses (no
\* pull request URL, or one whose number is no int) causes no call to GitHub:
\* PullRequests.Get is not called for it and no review call (ListReviews,
\* Users.Get, CreateReview) is made, whatever the rules declare.
C27_NoReferenceNoGitHubCall ==
    (Processed /\ ~memo.parseGitHubNotification[last.msg.Body].ok) =>
        /\ CallsTo(last.res.calls, "PullRequests.Get") = {}
        /\ ReviewCalls = {}
        /\ reviews = last.reviews0
        /\ githubPullRequestCache = last.cache0

\* A message with a pull request URL whose number overflows was matched by a
\* rule with the prefetch and the approval action, outside a dry run: the
\* action failed for want of prefetch data.
C27_Witness ==
    /\ Processed /\ ~dryRun
    /\ last.msg.Body = BodyHuge
    /\ memo.githubPullRequestURLRegex[BodyHuge] # <<>>
    /\ ApprovalRuleMatched
    /\ last.res.err = <<"process GitHub review action",
                        "invalid GitHub pull request prefetch data type">>
    /\ C27_NoReferenceNoGitHubCall

\* The levels of a list of log entries or posts, in order.
LevelsOf(entries) == [i \in 1..Len(entries) |-> entries[i].level]

IsForwardedCall(e) == e.msg = "call"
IsFailureReport(e) == e.msg # "call"
IsFailedPost(p) == p.outcome # "ok"

\* A call at level L goes to Slack: L is at or above the send level and at or
\* above the level of the wrapped logger.
GoesToSlack(L) ==
    /\ LevelRank(L) >= LevelRank(lg.send)
    /\ LevelRank(L) >= LevelRank(lg.level)

\* C28: with the Slack wrapper every call reaches the wrapped logger, in
\* order; the posts to Slack are exactly the calls at or above both the send
\* level and the level of the wrapped logger, in order; each failed or
\* rejected post leaves one error-level report in the wrapped logger and no
\* post of its own; and every call returns.
C28_SlackGetsExactlyTheCallsAtOrAboveBothLevels ==
    (pc = "log") =>
        /\ LevelsOf(SelectSeq(lg.under, IsForwardedCall)) = lg.calls
        /\ LevelsOf(lg.posts) = SelectSeq(lg.calls, GoesToSlack)
        /\ Len(SelectSeq(lg.under, IsFailureReport))
              = Len(SelectSeq(lg.posts, IsFailedPost))
        /\ \A i \in 1..Len(lg.under) :
              IsFailureReport(lg.under[i]) => lg.under[i].level = "error"

\* Three calls of a wrapper that sends from warn on, over a logger at info: a
\* debug call that is not posted, a warn call whose post was rejected, and an
\* error call whose post failed (errors are sent, yet the two reports are not).
C28_Witness ==
    /\ pc = "log" /\ lg.send = "warn" /\ lg.level = "info"
    /\ lg.calls = <<"debug", "warn", "error">>
    /\ lg.posts = <<[level |-> "warn", outcome |-> "non200"],
                    [level |-> "error", outcome |-> "postErr"]>>
    /\ Len(lg.under) = 5

\* C29: when a cycle has returned without error, every message of the inbox
\* was passed to processMessage in it unless the ledger or the --uids filter
\* excluded it: each message still in the inbox is in the ledger (a message
\* processed without error is entered there) or is not targeted. The messages
\* no longer in the inbox were moved by their own processing.
C29_ACycleScansTheWholeInbox ==
    (pc = "ret" /\ err = Nil) =>
        \A i \in 1..Len(inbox) :
            \/ InLedger(processedUIDs, inbox[i].UID)
            \/ NotTargeted(targetUIDs, inbox[i].UID)

\* C30: the ledger is empty when a command starts; no step takes a UID out of
\* it, so the cycles of a server run work on one ledger that carries over;
\* and the only step that adds to it is a processMessage call that returned no
\* error, which adds the UID of its message: the ledger is at any time the set
\* of the UIDs processed without error so far in the run.
C30_LedgerOnlyGrowsBySuccesses ==
    /\ processedUIDs = {}
    /\ [][/\ processedUIDs \subseteq processedUIDs'
          /\ (pc = "msg" /\ last'.step = "process" /\ last'.res.err = Nil)
                => processedUIDs' = processedUIDs \cup {last'.msg.UID}
          /\ processedUIDs' # processedUIDs
                => /\ pc = "msg" /\ last'.step = "process"
                   /\ last'.res.err = Nil]_vars

\* A later cycle of a server, after a failed one, has added the second message
\* to the ledger that the earlier cycle left with the first.
C30_Witness ==
    /\ mode = "server" /\ backoffTimes >= 1
    /\ Processed /\ last.msg.UID = 2 /\ last.res.err = Nil
    /\ processedUIDs = {1, 2}

\* The processMessage call of the step did nothing: the message was seen, no
\* rule matched, or the run is a dry run.
DidNothing ==
    \/ IsSeen(last'.msg)
    \/ last'.res.actions = <<>>
    \/ dryRun

\* C31: a processMessage call that did nothing (a seen message, no rule
\* matched, a dry run) returns no error, has changed nothing in the mail store
\* or on GitHub, and its message is entered in the ledger; and a message of the ledger is never handed to processMessage again
\* in the run, whatever its flags are by then.
C31_IdleProcessingIsRecordedForTheRun ==
    /\ [][(pc = "msg" /\ last'.step = "process" /\ DidNothing)
            => /\ last'.res.err = Nil
               /\ \A i \in 1..Len(last'.res.calls) : ~IsMutatingCall(last'.res.calls[i])
               /\ last'.msg.UID \in processedUIDs']_vars
    /\ [][(pc = "msg" /\ messages[pos].UID \in processedUIDs)
            => last'.step # "process"]_vars

\* Outside a dry run a message from b@x is in the ledger and still in INBOX,
\* so it was seen when it was processed; it is unread now, the rule would
\* delete it, and the cycle has skipped it.
C31_Witness ==
    /\ ~dryRun
    /\ config = SweepConfig
    /\ last.step = "skipProcessed"
    /\ last.msg.UID \in processedUIDs
    /\ ~IsSeen(last.msg)
    /\ last.msg.Envelope.From = <<AddrB>>
    /\ \E i \in 1..Len(inbox) : inbox[i] = last.msg

\* The cycle before the running one returned the error of a failed move to
\* the trash: err is what the last cycle that returned has returned.
EarlierCycleFailedAtTrash ==
    /\ mode = "server"
    /\ pc \in {"page", "msgs"}
    /\ Len(err) >= 2 /\ err[1] = "uid" /\ err[2] = "move email to trash"

\* C32: a message whose processing returned an error is not in the ledger and,
\* unless a move of that call took it away, is still in INBOX for the next
\* cycle; and every processMessage call that executes actions whose first is
\* a label, move or delete starts with the mail-store call of that action and
\* issues the calls of the pending actions in order from there, whatever an
\* earlier call for the message had achieved.
C32_FailedMessageIsRedoneFromItsFirstAction ==
    Processed =>
        /\ last.res.err # Nil =>
              /\ last.msg.UID \notin processedUIDs
              /\ ~last.res.moved => \E i \in 1..Len(inbox) : inbox[i].UID = last.msg.UID
        /\ (~dryRun /\ ~IsSeen(last.msg) /\ last.res.actions # <<>>
              /\ MailCallOf(Head(last.res.actions)) # <<>>) =>
              /\ IsPrefixOf(MailCallSeq, ExpectedMail(last.res.actions))
              /\ Len(MailCallSeq) >= 1
              /\ MailCallSeq[1] = MailCallOf(Head(last.res.actions))[1]

\* The only message of the inbox was labelled in an earlier cycle, which then
\* failed to move it to the trash; the running cycle has labelled it again
\* and moved it.
C32_Witness ==
    /\ EarlierCycleFailedAtTrash
    /\ Processed /\ last.msg.UID = 1 /\ last.res.err = Nil
    /\ Len(last.res.calls) = 2
    /\ last.res.calls[1] = Call("Copy", {1}, <<"A">>, TRUE)
    /\ last.res.calls[2].op = "Move" /\ last.res.calls[2].ok
    /\ inbox = <<>>

\* The UIDs of the messages of the model's inboxes.
UIDs == 1..MaxMessages

\* The last step processed message u.
ProcessedMessage(u) == Processed /\ last.msg.UID = u

\* Whenever message m is processed, the call returns an error and m stays in
\* INBOX.
FailsWhenProcessed(m) ==
    ProcessedMessage(m) => (last.res.err # Nil /\ ~last.res.moved)

\* No message with a UID above m (the messages a fetch returns after m) is
\* processed or is in the ledger.
NoProgressPast(m) ==
    \A n \in UIDs : n > m => (~ProcessedMessage(n) /\ n \notin processedUIDs)

\* C33: in a server run in which every processMessage call for message m
\* returns an error, no message that is fetched after m is ever processed or
\* entered in the ledger.
C33_NoProgressPastAFailingMessage ==
    \A m \in UIDs :
        (mode = "server" /\ \E i \in 1..Len(inbox) : inbox[i].UID = m /\ ~IsSeen(inbox[i]))
            => ([]FailsWhenProcessed(m) => []NoProgressPast(m))

\* A later cycle stands at the first message again: the cycle before failed
\* at a message, nothing is in the ledger, so it failed at the first one, and
\* the second message is still waiting.
C33_Witness ==
    /\ mode = "server"
    /\ pc = "msg" /\ pos = 1 /\ messages[1].UID = 1
    /\ Len(err) >= 1 /\ err[1] = "uid"
    /\ processedUIDs = {}
    /\ Len(inbox) = 2 /\ ~IsSeen(inbox[2])
    /\ NoProgressPast(1)

\* runOnce is between its Select and its return.
InCycle == pc \in {"page", "fetch", "msgs", "msg"}

C35_OtherFailuresLeaveTheCounter ==
    /\ backoffTimes = nTransient
    /\ (pc = "sleep" /\ (err = Nil \/ IsCanceled(err))) => backoffTimes = 0

\* Since the last success two cycles failed with a transient error, the
\* latest one among them, and one with another error: the counter is 2.
C35_Witness ==
    /\ pc = "sleep"
    /\ CycleFailed /\ isTransientError(err)
    /\ otherSeen
    /\ nTransient = 2
    /\ backoffTimes = 2

\* The prefetch of the first rule resolved the pull request of the message:
\* the cache held it, or the first PullRequests.Get of the message succeeded.
ResolvedByFirstRule ==
    /\ memo.githubPullRequestURLRegex[last.msg.Body] # <<>>
    /\ \/ CacheKey(memo.parseGitHubNotification[last.msg.Body].owner,
                    memo.parseGitHubNotification[last.msg.Body].repo,
                    memo.parseGitHubNotification[last.msg.Body].number)
             \in DOMAIN last.cache0
       \/ /\ last.res.calls # <<>>
          /\ last.res.calls[1].op = "PullRequests.Get"
          /\ last.res.calls[1].ok

\* C36: with the rules of BindConfig, the data the prefetch of the first rule
\* resolved is what the condition of the second rule, which declares no
\* prefetch, is evaluated with, and what the third rule is evaluated with: it
\* is bound at the end of the message, the second and the third rule match
\* exactly when its author is alice, and no rule fetches it again. A message
\* without a pull request URL has no data bound, whatever the messages before
\* it had.
C36_PrefetchDataStaysBoundForLaterRules ==
    (Processed /\ config = BindConfig) =>
        /\ Len(last.res.evals) = 3
        /\ ResolvedByFirstRule =>
              /\ HasBoundPR
              /\ last.res.evals[2].matched <=> BoundPR.author = "alice"
              /\ last.res.evals[3].matched <=> BoundPR.author = "alice"
              /\ Cardinality(CallsTo(last.res.calls, "PullRequests.Get")) <= 1
        /\ ~ResolvedByFirstRule => ~last.res.evals[2].matched
        /\ last.res.evals[2].matched => (HasBoundPR /\ last.res.evals[3].matched)
        /\ memo.githubPullRequestURLRegex[last.msg.Body] = <<>> => ~HasBoundPR

\* The first rule fetched the pull request of alice, and the second rule,
\* which declares no prefetch, matched on its author.
C36_Witness ==
    /\ Processed /\ config = BindConfig
    /\ last.cache0 = EmptyMap
    /\ Len(last.res.calls) >= 1
    /\ last.res.calls[1] = Call("PullRequests.Get", 0, KeyOR7, TRUE)
    /\ last.res.evals = <<[rule |-> 1, matched |-> FALSE],
                          [rule |-> 2, matched |-> TRUE],
                          [rule |-> 3, matched |-> TRUE]>>
    /\ BoundPR.author = "alice"

\* C37: every processMessage call is for a message that no earlier call of
\* the run has processed without error, and a call that returns an error ends
\* the cycle, so no message is processed twice in a cycle; a message of the
\* ledger that a page holds, as the one at the sequence number two windows
\* share, is passed over.
C37_NoMessageTwiceInACycle ==
    /\ [][(pc = "msg" /\ last'.step = "process")
            => /\ last'.msg = messages[pos]
               /\ last'.msg.UID \notin processedUIDs
               /\ IF last'.res.err = Nil
                  THEN last'.msg.UID \in processedUIDs' /\ pc' \in {"msgs", "page"}
                  ELSE pc' = "ret"]_vars
    /\ [][(pc = "msg" /\ messages[pos].UID \in processedUIDs)
            => /\ last'.step = "skipProcessed"
               /\ UNCHANGED <<inbox, processedUIDs>>]_vars

\* The first window held messages 1 to 1 + PageStep and none was moved; the second
\* window, from sequence number 1 + PageStep, began with message 3 again,
\* which was skipped.
C37_Witness ==
    /\ mode = "once"
    /\ last.step = "skipProcessed"
    /\ last.msg.UID = 1 + PageStep
    /\ idx = 1 + PageStep
    /\ Len(messages) >= 2 /\ messages[1] = last.msg /\ pos = 2
    /\ 1..(1 + PageStep) \subseteq processedUIDs
    /\ Len(inbox) = MaxScan

\* The action strings of the rules of the configuration.
ConfiguredActions ==
    UNION {{config.Filters[i].Actions[k] : k \in 1..Len(config.Filters[i].Actions)} :
             i \in 1..Len(config.Filters)}

\* C38: once the configuration has been checked, every action string of it
\* that the checks took for the review action (githubReviewRegexp matches) is
\* one the dispatcher runs as the review action when approval is enabled, and
\* the other way round.
C38_LoadAndDispatchClassifyAlike ==
    pc # "load" =>
        \A a \in ConfiguredActions :
            githubReviewRegexp(a) <=> ActionKind(a, TRUE) = "review"

\* ------------------------------------------------------ argument format

\* Rules whose label or move has no double-quoted argument and a rule that
\* labels with a name that holds the review keyword, next to a plain rule and
\* a rule whose condition is no expression.
FormatPool ==
    {Filter("label", <<>>, Cond("true", <<>>), <<ActLabelA>>, FALSE),
     Filter("broken", <<>>, Cond("syntaxError", <<>>), <<ActLabelA>>, FALSE),
     Filter("unquoted", <<>>, Cond("true", <<>>),
            <<ActLabelA, ActLabelBare, ActLabelB>>, FALSE),
     Filter("unmoved", <<>>, Cond("true", <<>>), <<ActMoveBare, W_delete>>, FALSE),
     Filter("tagged", <<PrefetchPR>>, Cond("true", <<>>), <<ActLabelReview>>, FALSE)}

\* A command is started with a configuration file of such rules and without
\* the GitHub integration.
InitFormat ==
    /\ memo = Matches
    /\ mode \in {"once", "server"}
    /\ config \in {[Server |-> [SleepInterval |-> ""],
                      GitHub |-> GitHubConfig(FALSE, <<>>, <<>>),
                      Filters |-> fs] :
                      fs \in UNION {[1..n -> FormatPool] : n \in 1..MaxRules}}
    /\ dryRun = FALSE
    /\ failureCap = MaxRunBackoff
    /\ uidsArg = <<>>
    /\ slog = <<>>
    /\ lg = NoLogger
    /\ late = NoLate
    /\ targetUIDs = {}
    /\ inbox \in Inboxes(1)
    /\ reviews = {}
    /\ githubPullRequestCache = EmptyMap
    /\ processedUIDs = {}
    /\ pc = "load"
    /\ idx = 0
    /\ messages = <<>>
    /\ pos = 0
    /\ sessions = 0
    /\ err = Nil
    /\ ctxDone = FALSE
    /\ backoffTimes = 0
    /\ sleepInterval = 0
    /\ nTransient = 0
    /\ otherSeen = FALSE
    /\ last = NoLast

SpecFormat == InitFormat /\ [][NextLoad]_vars

\* An action string with the prefix of a label or a move and no double-quoted
\* argument.
IsUnquoted(action) ==
    /\ \/ HasPrefix(action, <<"l", "a", "b", "e", "l", " ">>)
       \/ HasPrefix(action, <<"m", "o", "v", "e", " ", "t", "o", " ">>)
    /\ MailCallOf(action) = <<>>

\* The positions of such actions among the pending actions of the last step.
UnquotedPositions ==
    {k \in 1..Len(last.res.actions) : IsUnquoted(last.res.actions[k])}

FormatErrors ==
    {<<"invalid label action format">>, <<"invalid move to action format">>}

\* C39: a configuration is not rejected for such an action (loading fails
\* only for the errors of BadConfig); a message with such an action pending,
\* outside a dry run, is processed with an error, is not entered in the ledger
\* and ends the cycle with that error; when no call failed before, the error
\* is the format error, the calls made are those of the actions before the
\* first such action, and the action is not logged as unknown.
C39_UnquotedArgumentFailsTheMessage ==
    /\ pc = "fatal" => BadConfig(config)
    /\ (Processed /\ ~dryRun /\ UnquotedPositions # {}) =>
          /\ last.res.err # Nil
          /\ last.msg.UID \notin processedUIDs
          /\ pc = "ret" /\ err = Wrap(last.res.err, "uid")
          /\ NoCallFailed =>
                /\ last.res.err \in FormatErrors
                /\ MailCallSeq = ExpectedMail(SubSeq(last.res.actions, 1,
                                                     SetMin(UnquotedPositions) - 1))
                /\ ~HasLog("Unknown action")

\* label "A", label A and label "B" were pending: the copy to A was made, the
\* second action failed for its format, and no copy to B was made.
C39_Witness ==
    /\ Processed /\ ~dryRun
    /\ last.res.actions = <<ActLabelA, ActLabelBare, ActLabelB>>
    /\ last.res.calls = <<Call("Copy", {last.msg.UID}, <<"A">>, TRUE)>>
    /\ last.res.err = <<"invalid label action format">>
    /\ processedUIDs = {}
    /\ pc = "ret"

====
